---- MODULE Spec2Model ----
(***************************************************************************)
(* Model of the execution core of riskfusion_alpha:                        *)
(*   - OMS.execute_rebalance (riskfusion/execution/oms.py) against the     *)
(*     AlpacaConnector broker interface,                                   *)
(*   - run_daily_pipeline (riskfusion/daily_runner.py), its run statuses   *)
(*     and its fallback-weights handler.                                   *)
(*   - the portfolio functions construct_weights, optimize, apply_caps     *)
(*     and CovarianceEstimator.estimate (riskfusion/portfolio),            *)
(*   - the retry decorator and CircuitBreaker (riskfusion/utils/retry.py), *)
(* and of the bot control API of quant-car (apps/api/app/routes/bot.py).   *)
(*                                                                         *)
(* Money is an integer number of units of 1e-5 dollar (UnitsPerDollar),    *)
(* so that equity x weight (weights in 1/1000) and 0.99 x market value    *)
(* (market values in cents) are exact; round(x, 2) is modelled by          *)
(* RoundCents, which rounds to a multiple of UnitsPerCent.                 *)
(***************************************************************************)
EXTENDS Integers, Sequences, FiniteSets, TLC

VARIABLES
    \* ---- broker side (AlpacaConnector's remote account) ----
    equity,             \* account equity, in units
    broker_pos,         \* [Tickers -> Int] market value per symbol, 0 = not held
    \* ---- OMS.execute_rebalance ----
    pc,                 \* position of the rebalance cycle
    cycle,              \* number of the current call of execute_rebalance
    target_weights,     \* argument: sequence of rows [ticker, weight]
    capital,            \* local `capital`
    current_positions,  \* local `current_positions`: function on held symbols
    target_positions,   \* local `target_positions`: function on valid targets
    all_tickers,        \* tickers of the for loop not yet visited
    orders_submitted,   \* local list `orders_submitted`
    buys_submitted,     \* local list `buys_submitted`
    sells_submitted,    \* local list `sells_submitted`
    calls,              \* broker calls of this cycle, in order
    result,             \* dict returned by execute_rebalance
    prev,               \* what the previous cycle read, called and returned
    \* ---- environment of run_daily_pipeline ----
    allow_fallback,     \* os.getenv("ALLOW_FALLBACK_WEIGHTS")
    mode,               \* os.environ.get("EXECUTION_MODE", "SIMULATION")
    run_date,           \* date_str
    feature_dates,      \* dates present in the feature store
    files,              \* weights files of the outputs directory, by kind and date
    \* ---- run_daily_pipeline ----
    run_pc,             \* position in run_daily_pipeline
    run_status,         \* rows written by db.log_run, in order
    reports,            \* status lines of the monitoring reports written
    completed,          \* stages of the try block that have completed
    target_date,        \* local `target_date` (unbound until assigned)
    weights,            \* local `weights`
    error,              \* stage whose exception the except clause caught
    raised,             \* exception that leaves run_daily_pipeline
    writes,             \* weights files written by this run, in order
    flog,               \* log lines of the fallback logic
    drift_metrics,      \* local `drift_metrics`
    \* ---- portfolio construction ----
    pf_call,            \* function called, with its arguments and configuration
    pf_ret,             \* what the call returned or raised
    \* ---- bot control API (quant-car/apps/api/app/routes/bot.py) ----
    bot_status,         \* bot_state.status
    bot_process,        \* bot_state.process: 0 for None, else the task that opened it
    bot_mode,           \* bot_state.mode
    bot_tasks,          \* background tasks run_bot_process, by task id
    bot_procs,          \* pipeline processes opened by the tasks, by task id
    stop_pc,            \* position of the /bot/stop handler
    allow_live_trading, \* os.environ.get("ALLOW_LIVE_TRADING")
    bot_response,       \* the last response of the API
    \* ---- CircuitBreaker (riskfusion/utils/retry.py) ----
    cb_failure_threshold,   \* self.failure_threshold
    cb_recovery_timeout,    \* self.recovery_timeout
    cb_failures,            \* self.failures
    cb_last_failure_time,   \* self.last_failure_time
    cb_state,               \* self.state
    cb_now,                 \* time.time()
    cb_history,             \* the calls of call() so far, in order
    \* ---- retry decorator (riskfusion/utils/retry.py) ----
    rt_params,          \* arguments of retry(): tries, delay, backoff
    rt_pc,              \* position of the wrapper
    rt_mtries,          \* local `mtries`
    rt_mdelay,          \* local `mdelay`
    rt_invocations,     \* outcomes of the invocations of func, in order
    rt_slept,           \* number of time.sleep calls of this call
    rt_ret              \* what the wrapper returned or raised

oms_vars == <<equity, broker_pos, pc, cycle, target_weights, capital,
              current_positions, target_positions, all_tickers,
              orders_submitted, buys_submitted, sells_submitted, calls,
              result, prev>>

env_vars == <<allow_fallback, mode, run_date, feature_dates>>

pipe_vars == <<env_vars, files, run_pc, run_status, reports, completed,
               target_date, weights, error, raised, writes, flog,
               drift_metrics>>

port_vars == <<pf_call, pf_ret>>

bot_vars == <<bot_status, bot_process, bot_mode, bot_tasks, bot_procs, stop_pc,
              allow_live_trading, bot_response>>

cb_vars == <<cb_failure_threshold, cb_recovery_timeout, cb_failures,
             cb_last_failure_time, cb_state, cb_now, cb_history>>

rt_vars == <<rt_params, rt_pc, rt_mtries, rt_mdelay, rt_invocations, rt_slept,
             rt_ret>>

util_vars == <<cb_vars, rt_vars>>

svc_vars == <<bot_vars, util_vars>>

vars == <<oms_vars, pipe_vars, port_vars, svc_vars>>

----------------------------------------------------------------------------
(* Units *)

UnitsPerDollar == 100000
UnitsPerCent == 1000
WeightScale == 1000        \* weights are integers in 1/1000

(* Bounds *)
MaxCycles == 2             \* consecutive calls of execute_rebalance modelled

(* Program constants, oms.py:16 and oms.py:18 *)
MIN_ORDER_NOTIONAL == 100000          \* 1.0 dollar
REBALANCE_THRESHOLD_DIV == 200        \* 0.005 = 1 / 200

Tickers == {"AAPL", "MSFT", "GOOGL"}

Abs(x) == IF x < 0 THEN -x ELSE x

Min(a, b) == IF a < b THEN a ELSE b

\* variant: the notional truncated to whole cents
TruncCents(x) == (x \div UnitsPerCent) * UnitsPerCent

\* round(x, 2) for x >= 0: nearest cent, ties to the even cent
RoundCents(x) ==
    LET q == x \div UnitsPerCent
        r == x % UnitsPerCent
    IN  IF 2 * r < UnitsPerCent THEN q * UnitsPerCent
        ELSE IF 2 * r > UnitsPerCent THEN (q + 1) * UnitsPerCent
        ELSE IF q % 2 = 0 THEN q * UnitsPerCent
        ELSE (q + 1) * UnitsPerCent

\* a weight cell of the table: a finite number (in 1/1000), NaN or +-inf
Num(v) == [kind |-> "num", v |-> v]
NaN == [kind |-> "nan", v |-> 0]

\* np.isfinite(weight) and weight >= 0
IsValidWeight(w) == w.kind = "num" /\ w.v >= 0

RowsOf(tbl, t) == {i \in 1..Len(tbl) : tbl[i].ticker = t}

SetMin(S) == CHOOSE x \in S : \A y \in S : x <= y

\* target_weights['weight'].groupby(level=0).first(): per ticker, the first
\* non-null weight of its rows (NaN when all of them are null)
GroupByFirst(tbl) ==
    [t \in {tbl[i].ticker : i \in 1..Len(tbl)} |->
        LET nn == {i \in RowsOf(tbl, t) : tbl[i].weight.kind # "nan"}
        IN  IF nn = {} THEN NaN ELSE tbl[SetMin(nn)].weight]

\* capital * weight, capital a whole number of cents
TargetValue(cap, w) == (cap \div WeightScale) * w.v

\* step 4: target notional of every ticker with a valid weight
TargetPositionsOf(cap, ws) ==
    [t \in {u \in DOMAIN ws : IsValidWeight(ws[u])} |-> TargetValue(cap, ws[t])]

\* _get_current_positions_map over the broker's list of open positions
PositionsMap(bp) == [t \in {u \in Tickers : bp[u] # 0} |-> bp[t]]

\* dict.get(ticker, 0.0)
Get(m, t) == IF t \in DOMAIN m THEN m[t] ELSE 0

\* variant: the minimum-notional test without abs()
SkipSmallSigned(delta) == delta < MIN_ORDER_NOTIONAL

\* first skip test: abs(delta) < MIN_ORDER_NOTIONAL
SkipSmall(delta) == Abs(delta) < MIN_ORDER_NOTIONAL

\* second skip test: current_value > 0 and abs(delta / current_value) < 0.005
SkipRatio(delta, cv) == cv > 0 /\ Abs(delta) < cv \div REBALANCE_THRESHOLD_DIV

\* variant: a cap of 50% of the current value
SellCapHalf(cv) == (cv \div 100) * 50

\* variant: a cap of 101% of the current value
SellCapAbove(cv) == (cv \div 100) * 101

\* the cap of a partial sell: current_value * 0.99
SellCap(cv) == (cv \div 100) * 99

\* variant: never a full closure, always a partial sell
IsFullCloseNever(tv) == tv < 0

\* full closure test: target_value < MIN_ORDER_NOTIONAL
IsFullClose(tv) == tv < MIN_ORDER_NOTIONAL

\* What one iteration of the for loop does for a ticker: "skip" (continue
\* before the try), "buy", "close", "sell", or "none" (inside the try, no
\* broker call), with the notional passed to submit_order
Decide(cv, tv) ==
    LET delta == tv - cv IN
    IF SkipSmall(delta) THEN [act |-> "skip", notional |-> 0]
    ELSE IF SkipRatio(delta, cv) THEN [act |-> "skip", notional |-> 0]
    ELSE IF delta > 0 THEN [act |-> "buy", notional |-> RoundCents(delta)]
    ELSE IF delta < 0 THEN
        IF IsFullClose(tv) THEN [act |-> "close", notional |-> 0]
        ELSE LET sell_amount == Min(Abs(delta), SellCap(cv)) IN
             IF sell_amount < MIN_ORDER_NOTIONAL
             THEN [act |-> "none", notional |-> 0]
             ELSE [act |-> "sell", notional |-> RoundCents(sell_amount)]
    ELSE [act |-> "none", notional |-> 0]

\* a call of an AlpacaConnector method; ok = FALSE when it raised
Call(op, sym, side, notional, ok) ==
    [op |-> op, symbol |-> sym, side |-> side, notional |-> notional, ok |-> ok]

\* a call without order arguments (get_orders, cancel_all_orders, ...)
Read(op, ok) == Call(op, "", "", 0, ok)

\* variant: the order is counted although the broker call raised
AppendAlways(list, order, ok) == Append(list, order)

\* list.append(order) after the broker call inside the try block: not
\* reached when the call raised
AppendIfAccepted(list, order, ok) == IF ok THEN Append(list, order) ELSE list

\* variant: an exception of the cancel step leaves execute_rebalance
AfterCancelStrict(outcome) ==
    IF outcome \in {"get_orders_raises", "cancel_raises"} THEN "RAISED" ELSE "FETCH_ACCOUNT"

\* where the cycle goes after the cancel step: its except clause logs a
\* warning and falls through to step 1 whatever happened
AfterCancel(outcome) == "FETCH_ACCOUNT"

\* variant: a failed read is swallowed and the cycle goes on
AfterReadSwallowed(ok, next_pc) == next_pc

\* get_account and get_positions are called outside any try block: an
\* exception leaves execute_rebalance, a return goes on to the next step
AfterRead(ok, next_pc) == IF ok THEN next_pc ELSE "RAISED"

\* variant: a ticker whose order call failed stays in the loop
RemainingRetryFailed(all, ticker, act, ok) ==
    IF act \in {"skip", "none"} \/ ok THEN all \ {ticker} ELSE all

\* `for ticker in all_tickers`: every ticker is visited once, whatever its
\* order call does
Remaining(all, ticker, act, ok) == all \ {ticker}

Order(sym, side, notional) == [symbol |-> sym, side |-> side, notional |-> notional]

\* tickers whose submit_order or close_position call raised
FailedIn(cs) == {cs[i].symbol : i \in {j \in 1..Len(cs) :
                    cs[j].op \in {"submit_order", "close_position"} /\ ~cs[j].ok}}

NoPrev == [valid |-> FALSE, positions |-> <<>>, targets |-> <<>>, failed |-> {}]

----------------------------------------------------------------------------
(* Inputs *)

\* market values the broker reports (units): not held, dust below one
\* dollar, a short position, and two long positions
PosVals(t) ==
    CASE t = "AAPL" -> {0, 50000, -10000000, 400049000, 400000000}
      [] t = "MSFT" -> {0, 400000000, 400049000}
      [] OTHER -> {0}

\* weight cells of a ticker's row; "absent" = no row
WeightVals(t) ==
    CASE t = "AAPL" -> {Num(0), Num(3), Num(100), Num(401), Num(600), Num(-100), NaN}
      [] t = "MSFT" -> {Num(3), Num(100)}
      [] OTHER -> {Num(200)}

EquityVals == {1000000000, 1000001000}

\* a ticker listed twice, with two different weights
DuplicateRows(t) ==
    IF t = "MSFT"
    THEN {<<[ticker |-> t, weight |-> Num(3)], [ticker |-> t, weight |-> Num(100)]>>}
    ELSE {}

RowChoices(t) ==
    {<<>>} \cup {<<[ticker |-> t, weight |-> w]>> : w \in WeightVals(t)}
    \cup DuplicateRows(t)

WeightTables ==
    {a \o m \o g : a \in RowChoices("AAPL"), m \in RowChoices("MSFT"),
                   g \in RowChoices("GOOGL")}

----------------------------------------------------------------------------
(* OMS.execute_rebalance *)

(* Bounds *)
MaxTasks == 2              \* launches the bot control API accepts

TaskIds == 1..MaxTasks

\* the bot control API is not in use
NoBot ==
    /\ bot_status = "stopped"
    /\ bot_process = 0
    /\ bot_mode = "paper"
    /\ bot_tasks = [i \in TaskIds |-> [pc |-> "unused", mode |-> "paper"]]
    /\ bot_procs = [i \in TaskIds |-> [state |-> "none", env_mode |-> ""]]
    /\ stop_pc = "idle"
    /\ allow_live_trading = "unset"
    /\ bot_response = [req |-> "none", code |-> 0]

\* a CircuitBreaker() as constructed with its defaults, never called
NoBreaker ==
    /\ cb_failure_threshold = 5
    /\ cb_recovery_timeout = 60
    /\ cb_failures = 0
    /\ cb_last_failure_time = 0
    /\ cb_state = "CLOSED"
    /\ cb_now = 0
    /\ cb_history = <<>>

\* no function wrapped by retry is called
NoRetry ==
    /\ rt_params = [tries |-> 3, delay |-> 1, backoff |-> 2]
    /\ rt_pc = "none"
    /\ rt_mtries = 0
    /\ rt_mdelay = 0
    /\ rt_invocations = <<>>
    /\ rt_slept = 0
    /\ rt_ret = [kind |-> "none"]

NoUtils ==
    /\ NoBreaker
    /\ NoRetry

NoServices ==
    /\ NoBot
    /\ NoUtils

\* no portfolio function is under test
NoPortfolio ==
    /\ pf_call = [fn |-> "none"]
    /\ pf_ret = [kind |-> "none"]

\* no run of run_daily_pipeline: execute_rebalance is called directly
NoPipeline ==
    /\ allow_fallback = "unset"
    /\ mode = "PAPER"
    /\ run_date = 0
    /\ feature_dates = {}
    /\ files = <<>>
    /\ run_pc = "none"
    /\ run_status = <<>>
    /\ reports = <<>>
    /\ completed = <<>>
    /\ target_date = [bound |-> FALSE, date |-> 0]
    /\ weights = <<>>
    /\ error = ""
    /\ raised = ""
    /\ writes = <<>>
    /\ flog = <<>>
    /\ drift_metrics = "unset"

OMSInit ==
    /\ equity \in EquityVals
    /\ broker_pos \in {f \in [Tickers -> UNION {PosVals(t) : t \in Tickers}] :
                          \A t \in Tickers : f[t] \in PosVals(t)}
    /\ target_weights \in WeightTables
    /\ pc = "IDLE"
    /\ cycle = 1
    /\ capital = 0
    /\ current_positions = <<>>
    /\ target_positions = <<>>
    /\ all_tickers = {}
    /\ orders_submitted = <<>>
    /\ buys_submitted = <<>>
    /\ sells_submitted = <<>>
    /\ calls = <<>>
    /\ result = <<>>
    /\ prev = NoPrev
    /\ NoPipeline
    /\ NoPortfolio
    /\ NoServices

\* entry of execute_rebalance(target_weights), capital = None
ExecuteRebalance ==
    /\ pc = "IDLE"
    /\ pc' = "CANCEL_PENDING"
    /\ UNCHANGED <<equity, broker_pos, cycle, target_weights, capital,
                   current_positions, target_positions, all_tickers,
                   orders_submitted, buys_submitted, sells_submitted, calls,
                   result, prev>>
    /\ UNCHANGED <<pipe_vars, port_vars, svc_vars>>

\* step 0: get_orders, then cancel_all_orders when something is pending;
\* every exception is caught and logged
CancelPending ==
    /\ pc = "CANCEL_PENDING"
    /\ \E outcome \in {"get_orders_raises", "none_pending", "cancelled", "cancel_raises"} :
         /\ calls' = calls \o
            CASE outcome = "get_orders_raises" -> <<Read("get_orders", FALSE)>>
              [] outcome = "none_pending" -> <<Read("get_orders", TRUE)>>
              [] outcome = "cancelled" -> <<Read("get_orders", TRUE),
                                            Read("cancel_all_orders", TRUE)>>
              [] outcome = "cancel_raises" -> <<Read("get_orders", TRUE),
                                                Read("cancel_all_orders", FALSE)>>
         /\ pc' = AfterCancel(outcome)
    /\ UNCHANGED <<equity, broker_pos, cycle, target_weights, capital,
                   current_positions, target_positions, all_tickers,
                   orders_submitted, buys_submitted, sells_submitted,
                   result, prev>>
    /\ UNCHANGED <<pipe_vars, port_vars, svc_vars>>

\* step 1: get_account; an exception propagates out of execute_rebalance
GetAccount ==
    /\ pc = "FETCH_ACCOUNT"
    /\ \E ok \in BOOLEAN :
         /\ calls' = Append(calls, Read("get_account", ok))
         /\ capital' = IF ok THEN equity ELSE capital
         /\ pc' = AfterRead(ok, "FETCH_POSITIONS")
    /\ UNCHANGED <<equity, broker_pos, cycle, target_weights,
                   current_positions, target_positions, all_tickers,
                   orders_submitted, buys_submitted, sells_submitted,
                   result, prev>>
    /\ UNCHANGED <<pipe_vars, port_vars, svc_vars>>

\* step 2: _get_current_positions_map; an exception propagates
GetPositions ==
    /\ pc = "FETCH_POSITIONS"
    /\ \E ok \in BOOLEAN :
         /\ calls' = Append(calls, Read("get_positions", ok))
         /\ current_positions' = IF ok THEN PositionsMap(broker_pos)
                                        ELSE current_positions
         /\ pc' = AfterRead(ok, "DIFF")
    /\ UNCHANGED <<equity, broker_pos, cycle, target_weights, capital,
                   target_positions, all_tickers,
                   orders_submitted, buys_submitted, sells_submitted,
                   result, prev>>
    /\ UNCHANGED <<pipe_vars, port_vars, svc_vars>>

\* steps 3-5: aggregate the weights, compute the target notionals and the
\* union of tickers
Diff ==
    /\ pc = "DIFF"
    /\ target_positions' = TargetPositionsOf(capital, GroupByFirst(target_weights))
    /\ all_tickers' = DOMAIN current_positions \cup DOMAIN target_positions'
    /\ pc' = "SUBMIT"
    /\ UNCHANGED <<equity, broker_pos, cycle, target_weights, capital,
                   current_positions,
                   orders_submitted, buys_submitted, sells_submitted, calls,
                   result, prev>>
    /\ UNCHANGED <<pipe_vars, port_vars, svc_vars>>

\* step 6: one iteration of `for ticker in all_tickers` (a set: any order);
\* ok = FALSE is the broker call raising, caught by the except clause
SubmitStep ==
    /\ pc = "SUBMIT"
    /\ \E ticker \in all_tickers, ok \in BOOLEAN :
         LET d == Decide(Get(current_positions, ticker), Get(target_positions, ticker))
             order == Order(ticker, d.act, d.notional)
         IN
         /\ all_tickers' = Remaining(all_tickers, ticker, d.act, ok)
         /\ IF d.act \in {"skip", "none"}
            THEN UNCHANGED <<calls, orders_submitted, buys_submitted, sells_submitted>>
            ELSE /\ calls' = Append(calls,
                        IF d.act = "close"
                        THEN Call("close_position", ticker, "", 0, ok)
                        ELSE Call("submit_order", ticker, d.act, d.notional, ok))
                 /\ orders_submitted' = AppendIfAccepted(orders_submitted, order, ok)
                 /\ IF d.act = "buy"
                    THEN /\ buys_submitted' = AppendIfAccepted(buys_submitted, order, ok)
                         /\ UNCHANGED sells_submitted
                    ELSE /\ sells_submitted' = AppendIfAccepted(sells_submitted, order, ok)
                         /\ UNCHANGED buys_submitted
    /\ UNCHANGED <<equity, broker_pos, pc, cycle, target_weights, capital,
                   current_positions, target_positions, result, prev>>
    /\ UNCHANGED <<pipe_vars, port_vars, svc_vars>>

\* the return statement
Return ==
    /\ pc = "SUBMIT"
    /\ all_tickers = {}
    /\ result' = [orders_submitted |-> Len(orders_submitted),
                  buys |-> Len(buys_submitted),
                  sells |-> Len(sells_submitted),
                  details |-> orders_submitted]
    /\ pc' = "DONE"
    /\ UNCHANGED <<equity, broker_pos, cycle, target_weights, capital,
                   current_positions, target_positions, all_tickers,
                   orders_submitted, buys_submitted, sells_submitted, calls,
                   prev>>
    /\ UNCHANGED <<pipe_vars, port_vars, svc_vars>>

\* market value of a symbol once the accepted orders are filled: a buy adds
\* and a sell removes its notional, a close leaves zero
RECURSIVE Filled(_, _)
Filled(bp, orders) ==
    IF orders = <<>> THEN bp
    ELSE LET o == Head(orders)
             v == CASE o.side = "buy" -> bp[o.symbol] + o.notional
                    [] o.side = "sell" -> bp[o.symbol] - o.notional
                    [] OTHER -> 0
         IN Filled([bp EXCEPT ![o.symbol] = v], Tail(orders))

\* the broker fills the cycle's orders and execute_rebalance is called
\* again with the same target weights
FillAndRerun ==
    /\ pc = "DONE"
    /\ cycle < MaxCycles
    /\ broker_pos' = Filled(broker_pos, result.details)
    /\ prev' = [valid |-> TRUE, positions |-> current_positions,
                targets |-> target_positions, failed |-> FailedIn(calls)]
    /\ cycle' = cycle + 1
    /\ pc' = "IDLE"
    /\ capital' = 0
    /\ current_positions' = <<>>
    /\ target_positions' = <<>>
    /\ all_tickers' = {}
    /\ orders_submitted' = <<>>
    /\ buys_submitted' = <<>>
    /\ sells_submitted' = <<>>
    /\ calls' = <<>>
    /\ result' = <<>>
    /\ UNCHANGED <<equity, target_weights>>
    /\ UNCHANGED <<pipe_vars, port_vars, svc_vars>>

OMSNext ==
    \/ ExecuteRebalance
    \/ CancelPending
    \/ GetAccount
    \/ GetPositions
    \/ Diff
    \/ SubmitStep
    \/ Return
    \/ FillAndRerun

Init == OMSInit

Next == OMSNext

\* execute_rebalance called repeatedly on one account
Spec == Init /\ [][Next]_vars

----------------------------------------------------------------------------
(* run_daily_pipeline *)

MaxDate == 2               \* run dates are 1..MaxDate, file dates 0..MaxDate

Dates == 1..MaxDate

FileDates == 0..MaxDate

FileNames == {[kind |-> k, date |-> d] : k \in {"daily", "fallback"}, d \in FileDates}

DailyFile(d) == [kind |-> "daily", date |-> d]

FallbackFile(d) == [kind |-> "fallback", date |-> d]

SetMax(S) == CHOOSE x \in S : \A y \in S : x >= y

\* the stages of the try block, in program order
StageOrder == <<"ingest", "features", "select_date", "drift", "predict",
                "construct", "validate_weights", "snapshot", "execute",
                "output", "report", "log_success">>

StageIndex(st) == CHOOSE i \in 1..Len(StageOrder) : StageOrder[i] = st

\* variant: SUCCESS is logged before the monitoring report is written
StageAfterEarlySuccess(st) ==
    CASE st = "output" -> "log_success"
      [] st = "log_success" -> "report"
      [] st = "report" -> "returned"
      [] OTHER -> StageOrder[StageIndex(st) + 1]

\* the statement that follows a stage of the try block
StageAfter(st) ==
    IF StageIndex(st) = Len(StageOrder) THEN "returned"
    ELSE StageOrder[StageIndex(st) + 1]

StatusRow(status, err) == [status |-> status, error |-> err]

\* df['weight'].sum() > 1.0001, weights in 1/1000
RECURSIVE TotalWeight(_)
TotalWeight(tbl) ==
    IF tbl = <<>> THEN 0 ELSE Head(tbl).weight.v + TotalWeight(Tail(tbl))

\* variant: a tolerance of 1e-3 instead of 1e-4
WeightsInvalidLoose(tbl) == tbl # <<>> /\ TotalWeight(tbl) * 10 > 10010

\* validate_weights raises when the frame is not empty and
\* weights.sum() > 1.0001 (in 1/10000: sum * 10 > 10001)
WeightsInvalid(tbl) == tbl # <<>> /\ TotalWeight(tbl) * 10 > 10001

\* variant: the mode test is dropped
ExecutionEnabledAlways(m) == m \in {"LIVE", "PAPER", "SIMULATION"}

\* mode in ("LIVE", "PAPER")
ExecutionEnabled(m) == m \in {"LIVE", "PAPER"}

\* variant: any value of the variable enables the fallback
FallbackEnabledTruthy(v) == v # "unset"

\* os.getenv("ALLOW_FALLBACK_WEIGHTS") == "1"
FallbackEnabled(v) == v = "1"

\* pd.to_datetime(target_date) - timedelta(days=1)
Yesterday(d) == d - 1

\* DataFrame.sample(frac=0.1) draws round(0.1 * len) rows, half to even
SampleSize(n) ==
    LET q == n \div 10
        r == n % 10
    IN  IF r > 5 \/ (r = 5 /\ q % 2 = 1) THEN q + 1 ELSE q

\* number of feature rows dated before the target date
PastRowCounts(fdates, td) ==
    IF \E d \in fdates : d < td THEN {3, 5, 15, 40} ELSE {0}

\* what check_feature_drift returns: every PSI at most 0.2, or some above
PsiReports == {"stable", "drifted"}

\* weights tables the construct stage can produce: empty (the frame
\* construct_weights returns for an empty signal), summing to 0.7, to 1.001
\* and to 1.2
PipelineTables ==
    { <<>>,
      <<[ticker |-> "AAPL", weight |-> Num(600)], [ticker |-> "MSFT", weight |-> Num(100)]>>,
      <<[ticker |-> "AAPL", weight |-> Num(600)], [ticker |-> "MSFT", weight |-> Num(401)]>>,
      <<[ticker |-> "AAPL", weight |-> Num(600)], [ticker |-> "MSFT", weight |-> Num(600)]>> }

PipelinePositions ==
    { [t \in Tickers |-> 0],
      [t \in Tickers |-> IF t = "MSFT" THEN 400000000 ELSE 0] }

PipelineInit ==
    /\ allow_fallback \in {"unset", "0", "1"}
    /\ mode \in {"SIMULATION", "PAPER", "LIVE"}
    /\ run_date \in Dates
    /\ feature_dates \in (SUBSET Dates) \ {{}}
    /\ files \in {f \in [FileNames -> {"none", "weights_old"}] :
                     \A d \in FileDates : f[FallbackFile(d)] = "none"}
    /\ run_pc = "start"
    /\ run_status = <<>>
    /\ reports = <<>>
    /\ completed = <<>>
    /\ target_date = [bound |-> FALSE, date |-> 0]
    /\ weights = <<>>
    /\ error = ""
    /\ raised = ""
    /\ writes = <<>>
    /\ flog = <<>>
    /\ drift_metrics = "unset"
    /\ equity = 1000000000
    /\ broker_pos \in PipelinePositions
    /\ target_weights = <<>>
    /\ pc = "NOT_CALLED"
    /\ cycle = 1
    /\ capital = 0
    /\ current_positions = <<>>
    /\ target_positions = <<>>
    /\ all_tickers = {}
    /\ orders_submitted = <<>>
    /\ buys_submitted = <<>>
    /\ sells_submitted = <<>>
    /\ calls = <<>>
    /\ result = <<>>
    /\ prev = NoPrev
    /\ NoPortfolio
    /\ NoServices

\* a stage of the try block completes
Completes(st) ==
    /\ run_pc' = StageAfter(st)
    /\ completed' = Append(completed, st)
    /\ error' = error

\* a stage of the try block raises: control goes to the except clause
Raises(st) ==
    /\ run_pc' = "handler"
    /\ completed' = completed
    /\ error' = st

\* db.log_run(run_id, date_str, "STARTED", ...) before the try block
LogStarted ==
    /\ run_pc = "start"
    /\ run_status' = Append(run_status, StatusRow("STARTED", ""))
    /\ run_pc' = StageOrder[1]
    /\ UNCHANGED <<env_vars, drift_metrics, files, reports, completed, target_date, weights,
                   error, raised, writes, flog>>
    /\ UNCHANGED <<oms_vars, port_vars, svc_vars>>

\* step 1: ingest_prices, ingest_all_events
Ingest ==
    /\ run_pc = "ingest"
    /\ (Completes("ingest") \/ Raises("ingest"))
    /\ UNCHANGED <<env_vars, drift_metrics, files, run_status, reports, target_date, weights,
                   raised, writes, flog>>
    /\ UNCHANGED <<oms_vars, port_vars, svc_vars>>

\* step 2: build_features, load_features, validate_features
Features ==
    /\ run_pc = "features"
    /\ (Completes("features") \/ Raises("features"))
    /\ UNCHANGED <<env_vars, drift_metrics, files, run_status, reports, target_date, weights,
                   raised, writes, flog>>
    /\ UNCHANGED <<oms_vars, port_vars, svc_vars>>

\* step 3, first part: target_date is assigned (the run date, or the latest
\* date of the feature table when the run date has no features); the lines
\* that follow the assignment may still raise
SelectDate ==
    /\ run_pc = "select_date"
    /\ target_date' = [bound |-> TRUE,
                       date |-> IF run_date \in feature_dates THEN run_date
                                ELSE SetMax(feature_dates)]
    /\ (Completes("select_date") \/ Raises("select_date"))
    /\ UNCHANGED <<env_vars, drift_metrics, files, run_status, reports, weights,
                   raised, writes, flog>>
    /\ UNCHANGED <<oms_vars, port_vars, svc_vars>>

\* drift check: check_feature_drift on a 10% sample of the rows dated before
\* the target date.  calculate_psi takes np.min of the baseline values and
\* raises ValueError when the sample is empty; otherwise a PSI is reported
\* for each feature, with a warning above 0.2.
Drift ==
    /\ run_pc = "drift"
    /\ \E n \in PastRowCounts(feature_dates, target_date.date) :
          IF SampleSize(n) = 0
          THEN Raises("drift") /\ drift_metrics' = drift_metrics
          ELSE /\ Completes("drift")
               /\ drift_metrics' \in PsiReports
    /\ UNCHANGED <<env_vars, files, run_status, reports, target_date, weights,
                   raised, writes, flog>>
    /\ UNCHANGED <<oms_vars, port_vars, svc_vars>>

\* step 4: alpha and volatility predictions
Predict ==
    /\ run_pc = "predict"
    /\ (Completes("predict") \/ Raises("predict"))
    /\ UNCHANGED <<env_vars, drift_metrics, files, run_status, reports, target_date, weights,
                   raised, writes, flog>>
    /\ UNCHANGED <<oms_vars, port_vars, svc_vars>>

\* step 5: event-risk overlay and optimizer.construct_weights
Construct ==
    /\ run_pc = "construct"
    /\ \/ /\ weights' \in PipelineTables
          /\ Completes("construct")
       \/ /\ weights' = weights
          /\ Raises("construct")
    /\ UNCHANGED <<env_vars, drift_metrics, files, run_status, reports, target_date,
                   raised, writes, flog>>
    /\ UNCHANGED <<oms_vars, port_vars, svc_vars>>

\* DataValidator.validate_weights(weights)
ValidateWeights ==
    /\ run_pc = "validate_weights"
    /\ IF WeightsInvalid(weights)
       THEN Raises("validate_weights")
       ELSE Completes("validate_weights")
    /\ UNCHANGED <<env_vars, drift_metrics, files, run_status, reports, target_date, weights,
                   raised, writes, flog>>
    /\ UNCHANGED <<oms_vars, port_vars, svc_vars>>

\* db.log_snapshot: catches its own exceptions
Snapshot ==
    /\ run_pc = "snapshot"
    /\ Completes("snapshot")
    /\ UNCHANGED <<env_vars, drift_metrics, files, run_status, reports, target_date, weights,
                   raised, writes, flog>>
    /\ UNCHANGED <<oms_vars, port_vars, svc_vars>>

\* step 6: in LIVE or PAPER mode the weights' statistics are logged
\* (weights['weight'] raises KeyError on the column-less empty frame) and
\* oms.execute_rebalance(weights) is called; otherwise the rebalance is
\* only logged
Execute ==
    /\ run_pc = "execute"
    /\ IF ExecutionEnabled(mode)
       THEN IF weights = <<>>
            THEN Raises("execute") /\ UNCHANGED <<pc, target_weights>>
            ELSE /\ run_pc' = "executing"
                 /\ pc' = "IDLE"
                 /\ target_weights' = weights
                 /\ UNCHANGED <<completed, error>>
       ELSE Completes("execute") /\ UNCHANGED <<pc, target_weights>>
    /\ UNCHANGED <<env_vars, drift_metrics, files, run_status, reports, target_date, weights,
                   raised, writes, flog>>
    /\ UNCHANGED <<equity, broker_pos, cycle, capital, current_positions,
                   target_positions, all_tickers, orders_submitted,
                   buys_submitted, sells_submitted, calls, result, prev>>
    /\ UNCHANGED <<port_vars, svc_vars>>

\* execute_rebalance returned: db.log_trades, which catches its exceptions
ExecuteReturned ==
    /\ run_pc = "executing"
    /\ pc = "DONE"
    /\ Completes("execute")
    /\ UNCHANGED <<env_vars, drift_metrics, files, run_status, reports, target_date, weights,
                   raised, writes, flog>>
    /\ UNCHANGED <<oms_vars, port_vars, svc_vars>>

\* execute_rebalance raised (get_account or get_positions failed)
ExecuteRaised ==
    /\ run_pc = "executing"
    /\ pc = "RAISED"
    /\ Raises("execute")
    /\ UNCHANGED <<env_vars, drift_metrics, files, run_status, reports, target_date, weights,
                   raised, writes, flog>>
    /\ UNCHANGED <<oms_vars, port_vars, svc_vars>>

WriteRow(name, content, by) == [name |-> name, content |-> content, by |-> by]

\* step 6 (output): weights.to_csv to the outputs directory, then to the
\* audit directory; either write may raise
WriteOutputs ==
    /\ run_pc = "output"
    /\ \/ /\ Raises("output")
          /\ UNCHANGED <<files, writes>>
       \/ /\ files' = [files EXCEPT ![DailyFile(target_date.date)] = "weights_new"]
          /\ writes' = Append(writes, WriteRow(DailyFile(target_date.date), "weights_new", "try"))
          /\ (Completes("output") \/ Raises("output"))
    /\ UNCHANGED <<env_vars, drift_metrics, run_status, reports, target_date, weights,
                   raised, flog>>
    /\ UNCHANGED <<oms_vars, port_vars, svc_vars>>

\* generate_monitoring_report(date_str, "SUCCESS", ...)
Report ==
    /\ run_pc = "report"
    /\ \/ /\ reports' = Append(reports, "SUCCESS")
          /\ Completes("report")
       \/ /\ reports' = reports
          /\ Raises("report")
    /\ UNCHANGED <<env_vars, drift_metrics, files, run_status, target_date, weights,
                   raised, writes, flog>>
    /\ UNCHANGED <<oms_vars, port_vars, svc_vars>>

\* db.log_run(run_id, date_str, "SUCCESS", ...), the last statement of the
\* try block
LogSuccess ==
    /\ run_pc = "log_success"
    /\ run_status' = Append(run_status, StatusRow("SUCCESS", ""))
    /\ Completes("log_success")
    /\ UNCHANGED <<env_vars, drift_metrics, files, reports, target_date, weights,
                   raised, writes, flog>>
    /\ UNCHANGED <<oms_vars, port_vars, svc_vars>>

\* except Exception as e: db.log_run(..., "FAILED", ..., {'error': str(e)})
\* and generate_monitoring_report(date_str, "FAILED: ...", {}, empty, run_id)
HandleFailure ==
    /\ run_pc = "handler"
    /\ run_status' = Append(run_status, StatusRow("FAILED", error))
    /\ reports' = Append(reports, "FAILED")
    /\ run_pc' = "fallback"
    /\ UNCHANGED <<env_vars, drift_metrics, files, completed, target_date, weights,
                   error, raised, writes, flog>>
    /\ UNCHANGED <<oms_vars, port_vars, svc_vars>>

\* the fallback logic of the except clause; reading the unbound local
\* target_date raises UnboundLocalError out of the handler
Fallback ==
    /\ run_pc = "fallback"
    /\ IF ~FallbackEnabled(allow_fallback)
       THEN /\ run_pc' = "reraise"
            /\ UNCHANGED <<files, raised, writes, flog>>
       ELSE IF ~target_date.bound
       THEN /\ flog' = Append(flog, "attempting")
            /\ raised' = "UnboundLocalError"
            /\ run_pc' = "raised"
            /\ UNCHANGED <<files, writes>>
       ELSE LET yest_file == DailyFile(Yesterday(target_date.date))
                fallback_file == FallbackFile(target_date.date)
            IN  /\ run_pc' = "reraise"
                /\ raised' = raised
                /\ IF files[yest_file] # "none"
                   THEN /\ files' = [files EXCEPT ![fallback_file] = files[yest_file]]
                        /\ writes' = Append(writes, WriteRow(fallback_file, files[yest_file], "handler"))
                        /\ flog' = flog \o <<"attempting", "successful">>
                   ELSE /\ flog' = flog \o <<"attempting", "no_file">>
                        /\ UNCHANGED <<files, writes>>
    /\ UNCHANGED <<env_vars, drift_metrics, run_status, reports, completed, target_date,
                   weights, error>>
    /\ UNCHANGED <<oms_vars, port_vars, svc_vars>>

\* raise e
Reraise ==
    /\ run_pc = "reraise"
    /\ raised' = error
    /\ run_pc' = "raised"
    /\ UNCHANGED <<env_vars, drift_metrics, files, run_status, reports, completed,
                   target_date, weights, error, writes, flog>>
    /\ UNCHANGED <<oms_vars, port_vars, svc_vars>>

PipelineNext ==
    \/ LogStarted
    \/ Ingest
    \/ Features
    \/ SelectDate
    \/ Drift
    \/ Predict
    \/ Construct
    \/ ValidateWeights
    \/ Snapshot
    \/ Execute
    \/ ExecuteRebalance
    \/ CancelPending
    \/ GetAccount
    \/ GetPositions
    \/ Diff
    \/ SubmitStep
    \/ Return
    \/ ExecuteReturned
    \/ ExecuteRaised
    \/ WriteOutputs
    \/ Report
    \/ LogSuccess
    \/ HandleFailure
    \/ Fallback
    \/ Reraise

\* one run of run_daily_pipeline
PipelineSpec == PipelineInit /\ [][PipelineNext]_vars

----------------------------------------------------------------------------
(* Properties of OMS.execute_rebalance *)

OrderOps == {"submit_order", "close_position"}

\* indices of the order calls (submit_order, close_position) of this cycle
OrderCalls == {i \in 1..Len(calls) : calls[i].op \in OrderOps}

OrderCallsFor(t) == {i \in OrderCalls : calls[i].symbol = t}

\* union of current positions and valid targets, once both are known
UnionTickers == DOMAIN current_positions \cup DOMAIN target_positions

InLoop == pc \in {"SUBMIT", "DONE"}

Visited == UnionTickers \ all_tickers

CurVal(t) == Get(current_positions, t)

TgtVal(t) == Get(target_positions, t)

\* the skip test as the specification states it
PassesThresholds(cv, tv) ==
    /\ Abs(tv - cv) >= MIN_ORDER_NOTIONAL
    /\ ~(cv > 0 /\ Abs(tv - cv) < cv \div REBALANCE_THRESHOLD_DIV)

AcceptedSymbols == {calls[i].symbol : i \in {j \in OrderCalls : calls[j].ok}}

DetailSymbols(d) == {d[i].symbol : i \in 1..Len(d)}

\* C1: a broker call that raises for some instruments does not stop the
\* loop: at the return every instrument passing the skip thresholds has had
\* its order call, the cycle has returned (it is never left by an exception
\* once an order call was made), and orders_submitted = buys + sells =
\* len(details) counts exactly the instruments whose call succeeded.
C1_PartialFailureTolerated ==
    /\ pc = "RAISED" => OrderCalls = {}
    /\ pc = "DONE" =>
        /\ \A t \in UnionTickers :
              PassesThresholds(CurVal(t), TgtVal(t)) => OrderCallsFor(t) # {}
        /\ result.orders_submitted = result.buys + result.sells
        /\ result.orders_submitted = Len(result.details)
        /\ result.orders_submitted = Cardinality(AcceptedSymbols)
        /\ DetailSymbols(result.details) = AcceptedSymbols
        /\ result.buys = Cardinality({i \in OrderCalls : calls[i].ok /\ calls[i].side = "buy"})

C1_Witness ==
    /\ pc = "DONE"
    /\ FailedIn(calls) # {}
    /\ result.orders_submitted >= 2
    /\ result.buys >= 1
    /\ result.sells >= 1

\* a partial sell of the previous cycle that was limited by the 99% cap
CappedBefore(t) ==
    LET cv == Get(prev.positions, t)
        tv == Get(prev.targets, t)
    IN  /\ PassesThresholds(cv, tv)
        /\ tv < cv
        /\ tv >= MIN_ORDER_NOTIONAL
        /\ cv - tv > (cv \div 100) * 99

PrevTickers == DOMAIN prev.positions \cup DOMAIN prev.targets

\* C2 as stated: after a cycle whose orders were all accepted and filled, a
\* second cycle with the same equity and targets makes no order call.
C2_Idempotent ==
    (cycle >= 2 /\ prev.valid /\ prev.failed = {}) => OrderCalls = {}

\* C2 amended: the same, when moreover no partial sell of the first cycle
\* was limited by the 99% cap.
C2_IdempotentUncapped ==
    (/\ cycle >= 2
     /\ prev.valid
     /\ prev.failed = {}
     /\ \A t \in PrevTickers : ~CappedBefore(t)) => OrderCalls = {}

C2_Witness ==
    /\ cycle = 2
    /\ pc = "DONE"
    /\ prev.failed = {}
    /\ \A t \in PrevTickers : ~CappedBefore(t)
    /\ \E t \in PrevTickers :
          /\ Get(prev.targets, t) >= MIN_ORDER_NOTIONAL
          /\ Get(prev.targets, t) < Get(prev.positions, t)
          /\ PassesThresholds(Get(prev.positions, t), Get(prev.targets, t))
    /\ \E t \in PrevTickers : Get(prev.targets, t) > Get(prev.positions, t) + MIN_ORDER_NOTIONAL
    /\ current_positions # prev.positions

NoFailure == \A i \in 1..Len(calls) : calls[i].ok

ClosedFor(t) == \E i \in OrderCallsFor(t) : calls[i].op = "close_position"

\* C3 as stated: in a cycle without broker failure, every held instrument
\* (non-zero current value, also dust or negative) whose target value is
\* below MIN_ORDER_NOTIONAL gets a close_position call.
C3_CloseEveryHeld ==
    (pc = "DONE" /\ NoFailure) =>
        \A t \in UnionTickers :
            (CurVal(t) # 0 /\ TgtVal(t) < MIN_ORDER_NOTIONAL) => ClosedFor(t)

\* C3 amended: in a cycle without broker failure, every instrument whose
\* target value is below MIN_ORDER_NOTIONAL and whose current value exceeds
\* the target value by at least MIN_ORDER_NOTIONAL gets a close_position
\* call.
C3_CloseAboveMinimum ==
    (pc = "DONE" /\ NoFailure) =>
        \A t \in UnionTickers :
            (/\ TgtVal(t) < MIN_ORDER_NOTIONAL
             /\ CurVal(t) - TgtVal(t) >= MIN_ORDER_NOTIONAL) => ClosedFor(t)

C3_Witness ==
    /\ pc = "DONE"
    /\ NoFailure
    /\ \E t \in UnionTickers :
          /\ TgtVal(t) < MIN_ORDER_NOTIONAL
          /\ CurVal(t) - TgtVal(t) >= MIN_ORDER_NOTIONAL
          /\ ClosedFor(t)
    /\ \E t \in UnionTickers : t \notin DOMAIN target_positions /\ ClosedFor(t)

SellCalls == {i \in OrderCalls : calls[i].op = "submit_order" /\ calls[i].side = "sell"}

\* C4 as stated: every sell submitted has a notional of at most the current
\* market value, and of at most 99% of it also after rounding to cents.
C4_SellWithin99 ==
    \A i \in SellCalls :
        /\ calls[i].notional <= CurVal(calls[i].symbol)
        /\ calls[i].notional <= (CurVal(calls[i].symbol) \div 100) * 99

\* C4 amended: every sell submitted has a notional of at most the current
\* market value; after rounding to cents it exceeds 99% of the current
\* value by at most half a cent.
C4_SellWithinCurrent ==
    \A i \in SellCalls :
        /\ calls[i].notional > 0
        /\ calls[i].notional <= CurVal(calls[i].symbol)
        /\ calls[i].notional <= (CurVal(calls[i].symbol) \div 100) * 99 + UnitsPerCent \div 2

C4_Witness ==
    \E i \in SellCalls :
        /\ calls[i].ok
        /\ calls[i].notional > (CurVal(calls[i].symbol) \div 100) * 99
        /\ calls[i].notional < CurVal(calls[i].symbol)

\* C5: an instrument of the union gets an order call in the cycle if and
\* only if |delta| >= MIN_ORDER_NOTIONAL and not (current_value > 0 and
\* |delta / current_value| < REBALANCE_THRESHOLD); the others get none.
C5_OrderIffPassesThresholds ==
    InLoop =>
        /\ \A t \in Visited :
              OrderCallsFor(t) # {} <=> PassesThresholds(CurVal(t), TgtVal(t))
        /\ \A i \in OrderCalls : calls[i].symbol \in Visited

C5_Witness ==
    /\ pc = "DONE"
    /\ \E t \in UnionTickers : OrderCallsFor(t) # {}
    /\ \E t \in UnionTickers :
          /\ CurVal(t) > 0
          /\ Abs(TgtVal(t) - CurVal(t)) >= MIN_ORDER_NOTIONAL
          /\ OrderCallsFor(t) = {}
    /\ \E t \in UnionTickers :
          /\ CurVal(t) # 0
          /\ Abs(TgtVal(t) - CurVal(t)) < MIN_ORDER_NOTIONAL
          /\ OrderCallsFor(t) = {}

\* the order call the specification prescribes for a non-skipped
\* instrument, given how the notional x of a submit_order relates to the
\* prescribed amount a
Prescribed(c, cv, tv, Matches(_, _)) ==
    IF tv > cv
    THEN c.op = "submit_order" /\ c.side = "buy" /\ Matches(c.notional, tv - cv)
    ELSE IF tv < MIN_ORDER_NOTIONAL
    THEN c.op = "close_position"
    ELSE /\ c.op = "submit_order"
         /\ c.side = "sell"
         /\ \/ cv - tv <= (cv \div 100) * 99 /\ Matches(c.notional, cv - tv)
            \/ cv - tv > (cv \div 100) * 99 /\ Matches(c.notional, (cv \div 100) * 99)

Exactly(x, a) == x = a

\* x is a whole number of cents and within half a cent of a
ToNearestCent(x, a) == x % UnitsPerCent = 0 /\ 2 * Abs(x - a) <= UnitsPerCent

IsScenario2 ==
    /\ capital = 10000 * UnitsPerDollar
    /\ current_positions = [t \in {"AAPL", "MSFT"} |-> 4000 * UnitsPerDollar]
    /\ GroupByFirst(target_weights) =
          [t \in Tickers |-> CASE t = "AAPL" -> Num(600)
                               [] t = "MSFT" -> Num(100)
                               [] OTHER -> Num(200)]

HasCall(op, sym, side, notional) ==
    \E i \in OrderCalls : calls[i] = Call(op, sym, side, notional, TRUE)

Scenario2Orders ==
    /\ HasCall("submit_order", "AAPL", "buy", 2000 * UnitsPerDollar)
    /\ HasCall("submit_order", "MSFT", "sell", 3000 * UnitsPerDollar)
    /\ HasCall("submit_order", "GOOGL", "buy", 2000 * UnitsPerDollar)
    /\ Cardinality(OrderCalls) = 3
    /\ result.buys = 2
    /\ result.sells = 1

\* C6 as stated: a non-skipped instrument gets a buy of notional delta, a
\* full close when delta < 0 and the target value is below
\* MIN_ORDER_NOTIONAL, otherwise a sell of notional min(|delta|, 0.99 x
\* current_value); scenario 2 gives 2 buys and 1 sell.
C6_OrderAmounts ==
    /\ InLoop =>
          \A i \in OrderCalls :
              Prescribed(calls[i], CurVal(calls[i].symbol), TgtVal(calls[i].symbol), Exactly)
    /\ (pc = "DONE" /\ NoFailure /\ IsScenario2) => Scenario2Orders

\* C6 amended: the same, the notional of a buy or sell being the prescribed
\* amount rounded to the nearest cent.
C6_OrderAmountsRounded ==
    /\ InLoop =>
          \A i \in OrderCalls :
              Prescribed(calls[i], CurVal(calls[i].symbol), TgtVal(calls[i].symbol), ToNearestCent)
    /\ (pc = "DONE" /\ NoFailure /\ IsScenario2) => Scenario2Orders

C6_Witness == pc = "DONE" /\ NoFailure /\ IsScenario2 /\ Scenario2Orders

AfterCancelOps == {"get_account", "get_positions", "submit_order", "close_position"}

\* C7: the cancel step comes first and is best-effort: get_orders is the
\* first broker call of a cycle, before any account or position read and
\* any order; a cycle is only ever left by an exception of get_account or
\* get_positions, never by one of get_orders or cancel_all_orders.
C7_CancelFirstBestEffort ==
    /\ \A i \in 1..Len(calls) :
          /\ calls[i].op \in AfterCancelOps => (i > 1 /\ calls[1].op = "get_orders")
          /\ calls[i].op = "get_orders" => i = 1
          /\ calls[i].op = "cancel_all_orders" => (i = 2 /\ calls[1].ok)
    /\ pc \notin {"IDLE", "CANCEL_PENDING"} => (calls # <<>> /\ calls[1].op = "get_orders")
    /\ pc = "RAISED" =>
          /\ calls[Len(calls)].op \in {"get_account", "get_positions"}
          /\ ~calls[Len(calls)].ok

C7_Witness ==
    /\ pc = "DONE"
    /\ \E i \in 1..Len(calls) : calls[i].op \in {"get_orders", "cancel_all_orders"} /\ ~calls[i].ok
    /\ \E i \in OrderCalls : calls[i].ok
    /\ result.orders_submitted >= 1

----------------------------------------------------------------------------
(* Properties of run_daily_pipeline *)

Ended == run_pc \in {"returned", "raised"}

Logged(msg) == \E i \in 1..Len(flog) : flog[i] = msg

FallbackWrites == {i \in 1..Len(writes) : writes[i].name.kind = "fallback"}

\* C8: with ALLOW_FALLBACK_WEIGHTS = 1, a run that failed at any stage,
\* also before the target date is determined, ends with the fallback
\* attempted (the previous day's file copied, or its absence logged) and
\* with the original error of the failed stage re-raised.
C8_FallbackAtAnyStage ==
    (run_pc = "raised" /\ allow_fallback = "1") =>
        /\ raised = error
        /\ (FallbackWrites # {} /\ Logged("successful")) \/ Logged("no_file")

TerminalStatuses == {"SUCCESS", "FAILED"}

ThroughReport == SubSeq(StageOrder, 1, StageIndex("report"))

C10_FallbackNeverFabricates ==
    /\ \A i \in 1..Len(writes) :
          /\ writes[i].by = "handler" => i \in FallbackWrites
          /\ i \in FallbackWrites =>
                /\ writes[i].by = "handler"
                /\ allow_fallback = "1"
                /\ error # ""
                /\ \E j \in 1..Len(run_status) : run_status[j].status = "FAILED"
                /\ target_date.bound
                /\ writes[i].name = FallbackFile(target_date.date)
                /\ files[DailyFile(target_date.date - 1)] # "none"
                /\ writes[i].content = files[DailyFile(target_date.date - 1)]
    /\ Cardinality(FallbackWrites) <= 1
    /\ run_pc # "none" =>
          \A d \in FileDates :
              files[FallbackFile(d)] # "none" =>
                  \E i \in FallbackWrites :
                      /\ writes[i].name = FallbackFile(d)
                      /\ writes[i].content = files[FallbackFile(d)]

C10_Witness ==
    /\ run_pc = "raised"
    /\ raised = error
    /\ FallbackWrites # {}
    /\ files[FallbackFile(target_date.date)] = "weights_old"

----------------------------------------------------------------------------
(* Claims about the validation, execution-mode and drift gates *)

HasCompleted(st) == \E i \in 1..Len(completed) : completed[i] = st

FinalStatus == run_status[Len(run_status)].status

\* C11: orders are submitted only for weights that passed validate_weights:
\* when the weights sum to more than 1.0001 the validation stage raises, the
\* run ends FAILED and no broker order is submitted or position closed;
\* every broker call is preceded by a completed validation of weights
\* summing to at most 1.0001.
C11_OrdersOnlyForValidatedWeights ==
    /\ (HasCompleted("construct") /\ TotalWeight(weights) * 10 > 10001) =>
          /\ calls = <<>>
          /\ pc = "NOT_CALLED"
          /\ ~HasCompleted("validate_weights")
          /\ run_pc # "validate_weights" => error = "validate_weights"
          /\ run_pc # "returned"
          /\ run_pc = "raised" => FinalStatus = "FAILED"
    /\ (calls # <<>> \/ pc # "NOT_CALLED") =>
          /\ HasCompleted("validate_weights")
          /\ TotalWeight(weights) * 10 <= 10001

C11_Witness ==
    /\ run_pc = "raised"
    /\ mode = "LIVE"
    /\ error = "validate_weights"
    /\ TotalWeight(weights) = WeightScale + 1
    /\ FinalStatus = "FAILED"
    /\ calls = <<>>

\* C12: an empty alpha signal gives empty weights, and the run does not end
\* FAILED because of them in any execution mode; no order is submitted and
\* no position is closed for that run.
C12_EmptySignalNeverFails ==
    (HasCompleted("construct") /\ weights = <<>>) =>
        /\ OrderCalls = {}
        /\ error \notin {"validate_weights", "snapshot", "execute"}

BrokerTouched == calls # <<>> \/ pc # "NOT_CALLED" \/ target_weights # <<>>

\* C13: when EXECUTION_MODE is neither PAPER nor LIVE the run makes no
\* broker call at all (no cancel, no account or position read, no submit,
\* no close), and it can still end SUCCESS.
C13_NoBrokerCallOutsidePaperLive ==
    mode \notin {"PAPER", "LIVE"} =>
        /\ ~BrokerTouched
        /\ error # "execute"

C13_Witness ==
    /\ mode = "SIMULATION"
    /\ run_pc = "returned"
    /\ weights # <<>>
    /\ FinalStatus = "SUCCESS"
    /\ ~BrokerTouched

\* C14: the drift check is advisory: whatever the drift stage does, the run
\* goes on to predict, construct, validate and submit; the drift stage
\* never fails the run and never causes order submission to be skipped.
C14_DriftAdvisory ==
    /\ error # "drift"
    /\ (run_pc \notin {"none", "start", "ingest", "features", "select_date", "drift"}
        /\ error = "") => HasCompleted("drift")

----------------------------------------------------------------------------
(* Portfolio construction: PortfolioOptimizer.construct_weights,
   CVXPYOptimizer.optimize and ClusterCapEnforcer.apply_caps.
   Weights are exact rationals [kind, n, d] in lowest terms, or NaN. *)

RECURSIVE GCD(_, _)
GCD(a, b) == IF b = 0 THEN a ELSE GCD(b, a % b)

Rat(n, d) ==
    LET g == GCD(Abs(n), Abs(d))
        sgn == IF d < 0 THEN -1 ELSE 1
    IN  [kind |-> "num", n |-> sgn * (n \div g), d |-> sgn * (d \div g)]

RNaN == [kind |-> "nan", n |-> 0, d |-> 1]

Zero == Rat(0, 1)

One == Rat(1, 1)

IsNum(a) == a.kind = "num"

RAdd(a, b) == Rat(a.n * b.d + b.n * a.d, a.d * b.d)

RSub(a, b) == Rat(a.n * b.d - b.n * a.d, a.d * b.d)

RMul(a, b) == Rat(a.n * b.n, a.d * b.d)

RDiv(a, b) == Rat(a.n * b.d, a.d * b.n)

RLess(a, b) == a.n * b.d < b.n * a.d

RLeq(a, b) == a.n * b.d <= b.n * a.d

RAbs(a) == Rat(Abs(a.n), a.d)

\* Series.clip(lower=lo): NaN stays NaN
ClipLower(a, lo) == IF IsNum(a) /\ RLess(a, lo) THEN lo ELSE a

\* Series.clip(upper=hi): NaN stays NaN
ClipUpper(a, hi) == IF IsNum(a) /\ RLess(hi, a) THEN hi ELSE a

\* Series.fillna(v)
FillNa(a, v) == IF IsNum(a) THEN a ELSE v

\* Series.sum(): NaN entries are skipped
RECURSIVE SeriesSumOver(_, _)
SeriesSumOver(w, S) ==
    IF S = {} THEN Zero
    ELSE LET t == CHOOSE x \in S : TRUE
         IN  IF IsNum(w[t]) THEN RAdd(w[t], SeriesSumOver(w, S \ {t}))
             ELSE SeriesSumOver(w, S \ {t})

SeriesSum(w) == SeriesSumOver(w, DOMAIN w)

\* element-wise series / scalar and series * scalar: NaN stays NaN
DivBy(w, s) == [t \in DOMAIN w |-> IF IsNum(w[t]) THEN RDiv(w[t], s) ELSE RNaN]

\* `if weights.sum() > 0: weights = weights / weights.sum()`
Normalize(w) == IF RLess(Zero, SeriesSum(w)) THEN DivBy(w, SeriesSum(w)) ELSE w

\* score = alpha_scores.dropna().sort_values(ascending=False); the top_n
\* best of it (head)
Selected(alpha_scores, top_n) ==
    LET avail == {t \in DOMAIN alpha_scores : IsNum(alpha_scores[t])}
    IN  {t \in avail :
            Cardinality({u \in avail : RLess(alpha_scores[t], alpha_scores[u])}) < top_n}

\* weights = pd.Series(1.0 / len(selected), index=selected.index)
EqualWeights(sel) == [t \in sel |-> Rat(1, Cardinality(sel))]

\* inverse volatility weighting of the joined frame: NaN volatility is
\* filled with 0 and everything is clipped to at least 0.001
InverseVol(sel, vol_hat) ==
    LET vol_safe == [t \in sel |-> ClipLower(FillNa(vol_hat[t], Zero), Rat(1, 1000))]
        inv_vol == [t \in sel |-> RDiv(One, vol_safe[t])]
    IN  IF RLess(Zero, SeriesSum(inv_vol))
        THEN DivBy(inv_vol, SeriesSum(inv_vol))
        ELSE EqualWeights(sel)

\* event overlay: weight *= (1 - alpha * event_risk).clip(lower=multiplier_min)
EventOverlay(w, event_risk, overlay) ==
    [t \in DOMAIN w |->
        IF IsNum(event_risk[t]) /\ IsNum(w[t])
        THEN RMul(w[t], ClipLower(RSub(One, RMul(overlay.alpha, event_risk[t])),
                                  overlay.multiplier_min))
        ELSE RNaN]

\* `# Renormalize after clip`
RenormalizeAfterClip(w) == Normalize(w)

\* the empty frame pd.DataFrame(): no columns, no rows
EmptyFrame == [columns |-> {}, weight |-> <<>>]

\* PortfolioOptimizer.construct_weights(alpha_scores, risk_data)
ConstructWeights(alpha_scores, risk_data, params) ==
    LET selected == Selected(alpha_scores, params.top_n)
        base == IF risk_data.given /\ "vol_hat" \in risk_data.columns
                THEN InverseVol(selected, risk_data.vol_hat)
                ELSE EqualWeights(selected)
        overlaid == IF /\ risk_data.given
                       /\ params.event_overlay.enabled
                       /\ "event_risk" \in risk_data.columns
                    THEN EventOverlay(base, risk_data.event_risk, params.event_overlay)
                    ELSE base
        normalized == Normalize(overlaid)
        clipped == [t \in selected |-> ClipUpper(normalized[t], params.max_weight)]
        renormalized == RenormalizeAfterClip(clipped)
    IN  IF selected = {}
        THEN EmptyFrame
        ELSE [columns |-> {"weight"},
              weight |-> [t \in selected |-> FillNa(renormalized[t], Zero)]]

(* Inputs of construct_weights *)

AlphaVals(t) ==
    CASE t = "AAPL" -> {RNaN, Rat(5, 100)}
      [] t = "MSFT" -> {RNaN, Rat(3, 100)}
      [] OTHER -> {RNaN, Rat(1, 100)}

AlphaInputs == {a \in [Tickers -> UNION {AlphaVals(t) : t \in Tickers}] :
                   \A t \in Tickers : a[t] \in AlphaVals(t)}

VolVals == {RNaN, Rat(1, 10), Rat(4, 10)}

EventRiskVals(t) ==
    CASE t = "AAPL" -> {Zero, One, RNaN}
      [] t = "MSFT" -> {Zero, One}
      [] OTHER -> {Zero}

NoColumn == [t \in Tickers |-> RNaN]

VolInputs == [Tickers -> VolVals]

EventRiskInputs == {e \in [Tickers -> {Zero, One, RNaN}] :
                       \A t \in Tickers : e[t] \in EventRiskVals(t)}

RiskInputs ==
    {[given |-> FALSE]}
    \cup {[given |-> TRUE, columns |-> {"vol_hat", "event_risk"},
           vol_hat |-> v, event_risk |-> e] : v \in VolInputs, e \in EventRiskInputs}
    \cup {[given |-> TRUE, columns |-> {"vol_hat"},
           vol_hat |-> v, event_risk |-> NoColumn] : v \in VolInputs}
    \cup {[given |-> TRUE, columns |-> {"event_risk"},
           vol_hat |-> NoColumn, event_risk |-> e] : e \in EventRiskInputs}

\* config.params['portfolio']: top_n and max_weight at their defaults (20,
\* 0.10) and at the values of the tests (2 or 3 instruments, 0.50)
ConstructParams ==
    {[top_n |-> n, max_weight |-> m,
      event_overlay |-> [enabled |-> en, alpha |-> Rat(1, 2), multiplier_min |-> Rat(1, 5)]] :
        n \in {2, 20}, m \in {Rat(1, 10), Rat(1, 2)}, en \in BOOLEAN}

ConstructCalls ==
    {[fn |-> "construct_weights", alpha_scores |-> a, risk_data |-> r, params |-> p] :
        a \in AlphaInputs, r \in RiskInputs, p \in ConstructParams}

Pending == [kind |-> "pending"]

\* a call of construct_weights returns
ConstructWeightsCall ==
    /\ pf_call.fn = "construct_weights"
    /\ pf_ret = Pending
    /\ pf_ret' = [kind |-> "returned",
                  value |-> ConstructWeights(pf_call.alpha_scores, pf_call.risk_data,
                                             pf_call.params)]
    /\ UNCHANGED <<pf_call, oms_vars, pipe_vars, svc_vars>>

(* CVXPYOptimizer.optimize *)

RMin(a, b) == IF RLess(b, a) THEN b ELSE a

\* np.sum(np.abs(w - w_prev)), also cp.norm(w - w_prev, 1)
L1Distance(w, w_prev) ==
    SeriesSum([t \in DOMAIN w |-> RAbs(RSub(w[t], w_prev[t]))])

\* variant: equal weights that ignore max_weight
FallbackWeightsUncapped(tickers, max_weight) ==
    [t \in tickers |-> Rat(1, Cardinality(tickers))]

\* _fallback_weights: min(1.0 / n, self.max_weight) for every ticker
FallbackWeights(tickers, max_weight) ==
    [t \in tickers |-> RMin(Rat(1, Cardinality(tickers)), max_weight)]

\* w_prev: zeros without prev_weights, else prev_weights.reindex(tickers).fillna(0)
PrevVector(call) ==
    IF call.prev_weights.given
    THEN [t \in call.tickers |-> FillNa(call.prev_weights.w[t], Zero)]
    ELSE [t \in call.tickers |-> Zero]

\* the constraints handed to cp.Problem
SatisfiesConstraints(w, call) ==
    /\ call.config.long_only => \A t \in DOMAIN w : RLeq(Zero, w[t])
    /\ \A t \in DOMAIN w : RLeq(w[t], call.config.max_weight)
    /\ RLeq(SeriesSum(w), call.gross_exposure)
    /\ RLeq(Zero, SeriesSum(w))
    /\ RLeq(L1Distance(w, PrevVector(call)), call.config.turnover_cap)

\* values a component of the solver's solution takes in the model
SolverVals == {Rat(-1, 10), Zero, Rat(1, 2000), Rat(1, 10), Rat(1, 5), Rat(1, 2)}

FeasibleSolutions(call) ==
    {w \in [call.tickers -> SolverVals] : SatisfiesConstraints(w, call)}

\* what problem.solve does: a solution with an optimal status, a status
\* that is not optimal, or an exception
SolverOutcomes(call) ==
    {[kind |-> "solved", status |-> st, w |-> w] :
        st \in {"optimal", "optimal_inaccurate"}, w \in FeasibleSolutions(call)}
    \cup (IF FeasibleSolutions(call) = {}
          THEN {[kind |-> "status", status |-> st] : st \in {"infeasible", "infeasible_inaccurate"}}
          ELSE {})
    \cup {[kind |-> "raises", error |-> "SolverError"]}

\* lines 146-154: clip at 0, zero what is below 0.001, normalise to
\* gross_exposure
PostSolve(w, gross_exposure) ==
    LET clipped == [t \in DOMAIN w |-> ClipLower(w[t], Zero)]
        zeroed == [t \in DOMAIN w |->
                      IF RLess(clipped[t], Rat(1, 1000)) THEN Zero ELSE clipped[t]]
    IN  IF RLess(Zero, SeriesSum(zeroed))
        THEN [t \in DOMAIN w |-> RMul(RDiv(zeroed[t], SeriesSum(zeroed)), gross_exposure)]
        ELSE zeroed

\* the info dict of the solved path
SolvedInfo(status, optimal_weights, w_prev) ==
    [status |-> status,
     objective |-> "problem.value",
     risk |-> "risk_term.value",
     turnover |-> L1Distance(optimal_weights, w_prev),
     n_positions |-> Cardinality({t \in DOMAIN optimal_weights :
                                     RLess(Rat(1, 1000), optimal_weights[t])})]

\* what optimize returns for an outcome of the solver
OptimizeResult(call, outcome) ==
    CASE outcome.kind = "solved" ->
            LET optimal_weights == PostSolve(outcome.w, call.gross_exposure)
            IN  [weights |-> optimal_weights,
                 info |-> SolvedInfo(outcome.status, optimal_weights, PrevVector(call))]
      [] outcome.kind = "status" ->
            [weights |-> FallbackWeights(call.tickers, call.config.max_weight),
             info |-> [status |-> outcome.status]]
      [] outcome.kind = "raises" ->
            [weights |-> FallbackWeights(call.tickers, call.config.max_weight),
             info |-> [status |-> "ERROR", error |-> outcome.error]]

(* Inputs of optimize *)

TickerLists == {{"AAPL"}, {"AAPL", "MSFT"}, Tickers}

PrevVals(t) ==
    CASE t = "GOOGL" -> {Zero, Rat(1, 5)}
      [] OTHER -> {Zero, Rat(2, 5), Rat(1, 2)}

PrevInputs ==
    {[given |-> FALSE]}
    \cup {[given |-> TRUE, w |-> p] :
            p \in {q \in [Tickers -> {Zero, Rat(1, 5), Rat(2, 5), Rat(1, 2)}] :
                      \A t \in Tickers : q[t] \in PrevVals(t)}}

\* max_weight and long_only of config.params['portfolio'], turnover_cap of
\* config.params['optimizer']
OptimizerConfigs ==
    {[max_weight |-> m, turnover_cap |-> Rat(3, 10), long_only |-> lo] :
        m \in {Rat(1, 10), Rat(1, 2)}, lo \in BOOLEAN}

OptimizeCalls ==
    {[fn |-> "optimize", cvxpy_available |-> av, tickers |-> ts, prev_weights |-> p,
      gross_exposure |-> g, config |-> c] :
        av \in BOOLEAN, ts \in TickerLists, p \in PrevInputs,
        g \in {One, Rat(1, 2)}, c \in OptimizerConfigs}

\* a call of optimize returns or raises
OptimizeCall ==
    /\ pf_call.fn = "optimize"
    /\ pf_ret = Pending
    /\ IF ~pf_call.cvxpy_available
       THEN pf_ret' = [kind |-> "raised", error |-> "ImportError"]
       ELSE \E outcome \in SolverOutcomes(pf_call) :
               pf_ret' = [kind |-> "returned", outcome |-> outcome,
                          value |-> OptimizeResult(pf_call, outcome)]
    /\ UNCHANGED <<pf_call, oms_vars, pipe_vars, svc_vars>>

(* ClusterCapEnforcer.apply_caps *)

\* cluster_labels.reindex(weights.index), then fillna(-1) for the tickers
\* without a label: they all get the cluster id -1
AlignedClusters(tickers, cluster_labels) ==
    [t \in tickers |-> FillNa(cluster_labels[t], Rat(-1, 1))]

\* result['weight'].groupby(aligned_clusters).sum() at one cluster id
ClusterWeight(w, aligned_clusters, c) ==
    SeriesSum([t \in {u \in DOMAIN w : aligned_clusters[u] = c} |-> w[t]])

\* cluster_weights[cluster_weights > self.max_cluster_exposure]
ExcessClusters(w, aligned_clusters, max_cluster_exposure) ==
    {c \in {aligned_clusters[t] : t \in DOMAIN w} :
        RLess(max_cluster_exposure, ClusterWeight(w, aligned_clusters, c))}

\* variant: the weights of an excess cluster are left as they are
ScaleFactorOne(max_cluster_exposure, cluster_exposure) == One

\* scale_factor = self.max_cluster_exposure / cluster_exposure
ScaleFactor(max_cluster_exposure, cluster_exposure) ==
    RDiv(max_cluster_exposure, cluster_exposure)

\* variant: the caps are applied whatever the configuration says
CapsEnabledAlways(cfg) == TRUE

\* self.enabled, from graph.enabled of the configuration
CapsEnabled(cfg) == cfg.enabled

\* apply_caps(weights, cluster_labels)
ApplyCaps(w, cluster_labels, cfg) ==
    LET aligned_clusters == AlignedClusters(DOMAIN w, cluster_labels)
        excess_clusters == ExcessClusters(w, aligned_clusters, cfg.max_cluster_exposure)
    IN  IF ~CapsEnabled(cfg)
        THEN [columns |-> {"weight"}, weight |-> w]
        ELSE IF excess_clusters = {}
        THEN [columns |-> {"weight", "cluster_cap_applied"},
              weight |-> w,
              cluster_cap_applied |-> [t \in DOMAIN w |-> FALSE]]
        ELSE [columns |-> {"weight", "cluster_cap_applied"},
              weight |->
                 [t \in DOMAIN w |->
                     IF aligned_clusters[t] \in excess_clusters
                     THEN RMul(w[t],
                               ScaleFactor(cfg.max_cluster_exposure,
                                           ClusterWeight(w, aligned_clusters,
                                                         aligned_clusters[t])))
                     ELSE w[t]],
              cluster_cap_applied |->
                 [t \in DOMAIN w |-> aligned_clusters[t] \in excess_clusters]]

(* Inputs of apply_caps *)

CapWeightVals == {Zero, Rat(1, 10), Rat(1, 5), Rat(2, 5)}

\* a cluster id of the graph features, or NaN for a ticker without one
ClusterLabelVals == {Rat(0, 1), Rat(1, 1), RNaN}

\* graph.enabled and graph.max_cluster_exposure: the default 0.25 and the
\* 0.30 of the tests
CapConfigs ==
    {[enabled |-> en, max_cluster_exposure |-> m] :
        en \in BOOLEAN, m \in {Rat(1, 4), Rat(3, 10)}}

CapsCalls ==
    {[fn |-> "apply_caps", weight |-> w, cluster_labels |-> l, config |-> c] :
        w \in [Tickers -> CapWeightVals], l \in [Tickers -> ClusterLabelVals],
        c \in CapConfigs}

\* a call of apply_caps returns
ApplyCapsCall ==
    /\ pf_call.fn = "apply_caps"
    /\ pf_ret = Pending
    /\ pf_ret' = [kind |-> "returned",
                  value |-> ApplyCaps(pf_call.weight, pf_call.cluster_labels,
                                      pf_call.config)]
    /\ UNCHANGED <<pf_call, oms_vars, pipe_vars, svc_vars>>

(* Specification of the portfolio functions: one call, with any of the
   inputs above *)

\* no rebalance cycle is running
NoOMS ==
    /\ equity = 0
    /\ broker_pos = [t \in Tickers |-> 0]
    /\ target_weights = <<>>
    /\ pc = "NOT_CALLED"
    /\ cycle = 1
    /\ capital = 0
    /\ current_positions = <<>>
    /\ target_positions = <<>>
    /\ all_tickers = {}
    /\ orders_submitted = <<>>
    /\ buys_submitted = <<>>
    /\ sells_submitted = <<>>
    /\ calls = <<>>
    /\ result = <<>>
    /\ prev = NoPrev

PortfolioInit ==
    /\ pf_call \in ConstructCalls \cup OptimizeCalls \cup CapsCalls
    /\ pf_ret = Pending
    /\ NoOMS
    /\ NoPipeline
    /\ NoServices

PortfolioNext ==
    \/ ConstructWeightsCall
    \/ OptimizeCall
    \/ ApplyCapsCall

PortfolioSpec == PortfolioInit /\ [][PortfolioNext]_vars

----------------------------------------------------------------------------
(* Claims about the portfolio functions *)

ReturnedBy(fn) == pf_call.fn = fn /\ pf_ret.kind = "returned"

\* the weights a constructor returned, its max_weight and its gross exposure
ReturnedWeights ==
    IF pf_call.fn = "optimize" THEN pf_ret.value.weights ELSE pf_ret.value.weight

MaxWeightOfCall ==
    IF pf_call.fn = "optimize" THEN pf_call.config.max_weight ELSE pf_call.params.max_weight

GrossOfCall == IF pf_call.fn = "optimize" THEN pf_call.gross_exposure ELSE One

WithinBounds(w, max_weight, gross) ==
    /\ \A t \in DOMAIN w :
          /\ IsNum(w[t])
          /\ RLeq(Zero, w[t])
          /\ RLeq(w[t], max_weight)
    /\ RLeq(SeriesSum(w), RAdd(gross, Rat(1, 10000)))

\* C15: the weights returned by construct_weights and by optimize (solved
\* path and fallback path) are all in [0, max_weight], sum to at most
\* gross_exposure + 1e-4 and are finite, also after the final
\* renormalisation when fewer than 1/max_weight instruments are selected.
C15_WeightsWithinBounds ==
    (ReturnedBy("construct_weights") \/ ReturnedBy("optimize")) =>
        WithinBounds(ReturnedWeights, MaxWeightOfCall, GrossOfCall)

Solved == ReturnedBy("optimize") /\ pf_ret.outcome.kind = "solved"

\* C16: on the solved path the returned vector, after weights below 0.001
\* are zeroed and the result is renormalised to gross_exposure, is within
\* turnover_cap + 0.01 of prev_weights in L1 distance.
C16_TurnoverWithinBudget ==
    Solved =>
        RLeq(L1Distance(pf_ret.value.weights, PrevVector(pf_call)),
             RAdd(pf_call.config.turnover_cap, Rat(1, 100)))

RequiredInfo == {"status", "turnover", "n_positions", "risk"}

\* C17: on every return path of optimize, the fallback included, info
\* reports the solver status, the realised turnover, the position count and
\* the quadratic risk term.
C17_InfoComplete ==
    ReturnedBy("optimize") => RequiredInfo \subseteq DOMAIN pf_ret.value.info

SolverFailed ==
    /\ pf_call.fn = "optimize"
    /\ pf_call.cvxpy_available
    /\ pf_ret # Pending
    /\ pf_ret.kind = "returned" => pf_ret.outcome.kind # "solved"

EqualCapped(n, max_weight) ==
    IF RLeq(Rat(1, n), max_weight) THEN Rat(1, n) ELSE max_weight

\* C18: when the solver raises or ends with a status that is neither
\* optimal nor optimal_inaccurate, optimize does not raise: it returns
\* min(1/n, max_weight) for every instrument and an info with a status,
\* which is the solver's status when the solver reported one.
C18_FallbackOnSolverFailure ==
    SolverFailed =>
        /\ pf_ret.kind = "returned"
        /\ DOMAIN pf_ret.value.weights = pf_call.tickers
        /\ \A t \in pf_call.tickers :
              pf_ret.value.weights[t] =
                  EqualCapped(Cardinality(pf_call.tickers), pf_call.config.max_weight)
        /\ "status" \in DOMAIN pf_ret.value.info
        /\ pf_ret.value.info.status \notin {"optimal", "optimal_inaccurate"}
        /\ pf_ret.outcome.kind = "status" =>
              pf_ret.value.info.status = pf_ret.outcome.status

C18_Witness ==
    /\ SolverFailed
    /\ pf_ret.outcome.kind = "status"
    /\ pf_call.tickers = Tickers
    /\ pf_call.config.max_weight = Rat(1, 10)
    /\ pf_ret.value.info.status = "infeasible"
    /\ \A t \in Tickers : pf_ret.value.weights[t] = Rat(1, 10)

CapsApplied == ReturnedBy("apply_caps") /\ pf_call.config.enabled

Assigned(c) == {t \in Tickers : pf_call.cluster_labels[t] = c}

Unassigned == {t \in Tickers : ~IsNum(pf_call.cluster_labels[t])}

\* aggregate weight of a group of instruments
GroupWeight(w, S) == SeriesSum([t \in S |-> w[t]])

\* C19: with caps enabled, after apply_caps the aggregate weight of every
\* cluster is at most max_cluster_exposure, for any non-negative weights
\* and any assignment; this includes the instruments without assignment,
\* taken together and one by one.
C19_ClusterExposureCapped ==
    CapsApplied =>
        /\ \A c \in ClusterLabelVals \ {RNaN} :
              RLeq(GroupWeight(pf_ret.value.weight, Assigned(c)),
                   pf_call.config.max_cluster_exposure)
        /\ RLeq(GroupWeight(pf_ret.value.weight, Unassigned),
                pf_call.config.max_cluster_exposure)
        /\ \A t \in Unassigned :
              RLeq(pf_ret.value.weight[t], pf_call.config.max_cluster_exposure)

C19_Witness ==
    /\ CapsApplied
    /\ Cardinality(Unassigned) = 2
    /\ RLess(pf_call.config.max_cluster_exposure, GroupWeight(pf_call.weight, Unassigned))
    /\ \E c \in ClusterLabelVals \ {RNaN} :
          /\ RLess(pf_call.config.max_cluster_exposure, GroupWeight(pf_call.weight, Assigned(c)))
          /\ GroupWeight(pf_ret.value.weight, Assigned(c)) = pf_call.config.max_cluster_exposure

\* C20: every instrument without a cluster assignment is its own singleton
\* cluster: apply_caps leaves its weight unchanged whenever that weight
\* alone does not exceed max_cluster_exposure, whatever the other
\* unassigned instruments weigh.
C20_UnassignedAreSingletons ==
    ReturnedBy("apply_caps") =>
        \A t \in Unassigned :
            RLeq(pf_call.weight[t], pf_call.config.max_cluster_exposure) =>
                pf_ret.value.weight[t] = pf_call.weight[t]

CapsDisabled == ReturnedBy("apply_caps") /\ ~pf_call.config.enabled

\* C21: with caps disabled apply_caps returns the input weights unchanged:
\* the same values and no column added, for every weights table and
\* cluster assignment, also when a cluster exceeds max_cluster_exposure.
C21_DisabledIsPassThrough ==
    CapsDisabled =>
        /\ pf_ret.value.columns = {"weight"}
        /\ DOMAIN pf_ret.value = {"columns", "weight"}
        /\ pf_ret.value.weight = pf_call.weight

C21_Witness ==
    /\ CapsDisabled
    /\ \E c \in ClusterLabelVals \ {RNaN} :
          RLess(pf_call.config.max_cluster_exposure, GroupWeight(pf_call.weight, Assigned(c)))
    /\ RLess(pf_call.config.max_cluster_exposure, GroupWeight(pf_call.weight, Unassigned))
    /\ pf_ret.value.weight = pf_call.weight

----------------------------------------------------------------------------
(* Bot control API: the handlers of /bot/start, /bot/run-once and /bot/stop
   run one at a time on the event loop; an accepted launch adds the
   background task run_bot_process, which runs in a worker thread after the
   response has been sent. *)

BotModes == {"paper", "live"}

\* mode.upper()
Upper(m) == CASE m = "paper" -> "PAPER" [] m = "live" -> "LIVE"

\* the handlers that test ALLOW_LIVE_TRADING for a live request
LiveChecked(req) == req = "start"

\* `not os.environ.get("ALLOW_LIVE_TRADING")`: unset or empty
LiveRefused(v) == v \in {"unset", ""}

UnusedTasks == {i \in TaskIds : bot_tasks[i].pc = "unused"}

Response(req, code) == [req |-> req, code |-> code]

\* bot_state.status in ["running", "starting"]
AlreadyRunning == bot_status \in {"running", "starting"}

\* start_bot and run_once: 400 while running or starting, 403 for an
\* unallowed live start, else the task is added
Launch(req, m) ==
    /\ stop_pc = "idle"
    /\ UnusedTasks # {}
    /\ IF AlreadyRunning
       THEN /\ bot_response' = Response(req, 400)
            /\ UNCHANGED bot_tasks
       ELSE IF LiveChecked(req) /\ m = "live" /\ LiveRefused(allow_live_trading)
       THEN /\ bot_response' = Response(req, 403)
            /\ UNCHANGED bot_tasks
       ELSE /\ bot_response' = Response(req, 200)
            /\ LET i == SetMin(UnusedTasks)
               IN  bot_tasks' = [bot_tasks EXCEPT ![i] = [pc |-> "scheduled", mode |-> m]]
    /\ UNCHANGED <<bot_status, bot_process, bot_mode, bot_procs, stop_pc,
                   allow_live_trading>>
    /\ UNCHANGED <<oms_vars, pipe_vars, port_vars, util_vars>>

StartBot == \E m \in BotModes : Launch("start", m)

RunOnce == \E m \in BotModes : Launch("run-once", m)

\* process.terminate(), then wait(timeout=10) and kill()
Terminated(procs, i) ==
    IF i # 0 /\ procs[i].state = "alive"
    THEN [procs EXCEPT ![i].state = "killed"]
    ELSE procs

\* stop_bot up to the end of the termination of the process
StopBegin ==
    /\ stop_pc = "idle"
    /\ IF bot_status \notin {"running", "starting"}
       THEN /\ bot_response' = Response("stop", 400)
            /\ UNCHANGED <<bot_status, bot_procs, stop_pc>>
       ELSE /\ bot_status' = "stopping"
            /\ bot_procs' = Terminated(bot_procs, bot_process)
            /\ stop_pc' = "terminated"
            /\ UNCHANGED bot_response
    /\ UNCHANGED <<bot_process, bot_mode, bot_tasks, allow_live_trading>>
    /\ UNCHANGED <<oms_vars, pipe_vars, port_vars, util_vars>>

\* stop_bot, lines 165-168
StopEnd ==
    /\ stop_pc = "terminated"
    /\ bot_status' = "stopped"
    /\ bot_process' = 0
    /\ stop_pc' = "idle"
    /\ bot_response' = Response("stop", 200)
    /\ UNCHANGED <<bot_mode, bot_tasks, bot_procs, allow_live_trading>>
    /\ UNCHANGED <<oms_vars, pipe_vars, port_vars, util_vars>>

\* run_bot_process, lines 63-83
TaskStart(i) ==
    /\ stop_pc = "idle"
    /\ bot_tasks[i].pc = "scheduled"
    /\ bot_tasks' = [bot_tasks EXCEPT ![i].pc = "started"]
    /\ bot_status' = "starting"
    /\ bot_mode' = bot_tasks[i].mode
    /\ UNCHANGED <<bot_process, bot_procs, stop_pc, allow_live_trading, bot_response>>
    /\ UNCHANGED <<oms_vars, pipe_vars, port_vars, util_vars>>

\* run_bot_process, lines 86-96: the process is opened with
\* EXECUTION_MODE = mode.upper(); or Popen raises
TaskPopen(i) ==
    /\ bot_tasks[i].pc = "started"
    /\ \/ /\ bot_procs' = [bot_procs EXCEPT
                              ![i] = [state |-> "alive", env_mode |-> Upper(bot_tasks[i].mode)]]
          /\ bot_process' = i
          /\ bot_status' = "running"
          /\ bot_tasks' = [bot_tasks EXCEPT ![i].pc = "reading"]
       \/ /\ bot_status' = "error"
          /\ bot_process' = 0
          /\ bot_tasks' = [bot_tasks EXCEPT ![i].pc = "done"]
          /\ UNCHANGED bot_procs
    /\ UNCHANGED <<bot_mode, stop_pc, allow_live_trading, bot_response>>
    /\ UNCHANGED <<oms_vars, pipe_vars, port_vars, util_vars>>

\* the pipeline process ends by itself
ProcExits(i) ==
    /\ bot_procs[i].state = "alive"
    /\ \E st \in {"exit_ok", "exit_err"} :
          bot_procs' = [bot_procs EXCEPT ![i].state = st]
    /\ UNCHANGED <<bot_status, bot_process, bot_mode, bot_tasks, stop_pc,
                   allow_live_trading, bot_response>>
    /\ UNCHANGED <<oms_vars, pipe_vars, port_vars, util_vars>>

\* run_bot_process, lines 107-119: the output of the task's process has
\* ended; bot_state.process.wait() is called on whatever bot_state.process
\* is now (None raises AttributeError), then the handle is cleared
TaskFinish(i) ==
    /\ bot_tasks[i].pc = "reading"
    /\ bot_procs[i].state # "alive"
    /\ bot_process # 0 => bot_procs[bot_process].state # "alive"
    /\ bot_status' = IF bot_process # 0 /\ bot_procs[bot_process].state = "exit_ok"
                     THEN "stopped" ELSE "error"
    /\ bot_process' = 0
    /\ bot_tasks' = [bot_tasks EXCEPT ![i].pc = "done"]
    /\ UNCHANGED <<bot_mode, bot_procs, stop_pc, allow_live_trading, bot_response>>
    /\ UNCHANGED <<oms_vars, pipe_vars, port_vars, util_vars>>

BotInit ==
    /\ bot_status = "stopped"
    /\ bot_process = 0
    /\ bot_mode = "paper"
    /\ bot_tasks = [i \in TaskIds |-> [pc |-> "unused", mode |-> "paper"]]
    /\ bot_procs = [i \in TaskIds |-> [state |-> "none", env_mode |-> ""]]
    /\ stop_pc = "idle"
    /\ allow_live_trading \in {"unset", "", "1"}
    /\ bot_response = [req |-> "none", code |-> 0]
    /\ NoOMS
    /\ NoPipeline
    /\ NoPortfolio
    /\ NoUtils

BotNext ==
    \/ StartBot
    \/ RunOnce
    \/ StopBegin
    \/ StopEnd
    \/ \E i \in TaskIds : TaskStart(i)
    \/ \E i \in TaskIds : TaskPopen(i)
    \/ \E i \in TaskIds : ProcExits(i)
    \/ \E i \in TaskIds : TaskFinish(i)

BotSpec == BotInit /\ [][BotNext]_vars

AliveProcs == {i \in TaskIds : bot_procs[i].state = "alive"}

\* C22: under any interleaving of /bot/start, /bot/run-once and /bot/stop
\* with the background tasks, at most one pipeline process is alive at a
\* time.
C22_SingleProcess == Cardinality(AliveProcs) <= 1

Launched(i) == bot_tasks[i].pc # "unused"

\* C30: the pipeline is never launched in live mode unless
\* ALLOW_LIVE_TRADING is set: no task is scheduled with mode live, and no
\* process opened with EXECUTION_MODE=LIVE, while the variable is unset.
C30_LiveNeedsPermission ==
    LiveRefused(allow_live_trading) =>
        \A i \in TaskIds :
            /\ Launched(i) => bot_tasks[i].mode # "live"
            /\ bot_procs[i].env_mode # "LIVE"

----------------------------------------------------------------------------
(* Further claims about execute_rebalance *)

\* C27: SUBMIT is never retried: within one cycle at most one submit_order
\* or close_position call is made per instrument, whether it is accepted or
\* fails, also when the table lists the instrument more than once.
C27_OneOrderPerInstrument ==
    \A t \in Tickers : Cardinality(OrderCallsFor(t)) <= 1

C27_Witness ==
    /\ pc = "DONE"
    /\ Cardinality(RowsOf(target_weights, "MSFT")) = 2
    /\ \E i \in OrderCallsFor("MSFT") : ~calls[i].ok
    /\ Cardinality(OrderCallsFor("MSFT")) = 1
    /\ \E i \in OrderCallsFor("AAPL") : calls[i].ok

\* instruments whose aggregated target weight is NaN, infinite or negative
InvalidTargets ==
    {t \in DOMAIN GroupByFirst(target_weights) :
        ~IsValidWeight(GroupByFirst(target_weights)[t])}

\* C28: an instrument whose target weight is NaN, infinite or negative is
\* skipped: no buy, sell or close is submitted for it in that cycle,
\* whether or not the account holds a position in it.
C28_InvalidWeightSkipped ==
    \A t \in InvalidTargets : OrderCallsFor(t) = {}

ReadOk(op) == \E i \in 1..Len(calls) : calls[i].op = op /\ calls[i].ok

ReadFailed(op) == \E i \in 1..Len(calls) : calls[i].op = op /\ ~calls[i].ok

\* C29: if get_account or get_positions raises, execute_rebalance
\* propagates the error and submits no order and closes no position;
\* every order call is preceded in the same cycle by a successful read of
\* the account and of the positions.
C29_ReadsBeforeOrders ==
    /\ (ReadFailed("get_account") \/ ReadFailed("get_positions")) =>
          /\ pc = "RAISED"
          /\ OrderCalls = {}
          /\ result = <<>>
    /\ pc = "RAISED" => OrderCalls = {}
    /\ \A i \in OrderCalls :
          /\ \E j \in 1..(i - 1) : calls[j].op = "get_account" /\ calls[j].ok
          /\ \E j \in 1..(i - 1) : calls[j].op = "get_positions" /\ calls[j].ok

C29_Witness ==
    /\ pc = "RAISED"
    /\ ReadOk("get_account")
    /\ ReadFailed("get_positions")
    /\ target_weights # <<>>
    /\ broker_pos["AAPL"] # 0
    /\ OrderCalls = {}

----------------------------------------------------------------------------
(* CircuitBreaker (riskfusion/utils/retry.py) *)

(* Bounds *)
MaxThreshold == 3          \* largest failure_threshold
MaxTimeout == 2            \* largest recovery_timeout, in clock ticks
MaxTime == 4               \* last reading of the clock
MaxCalls == 4              \* calls of CircuitBreaker.call

\* what the wrapped function does when it is invoked: it returns, raises an
\* Exception, or raises a BaseException that is not an Exception
\* (KeyboardInterrupt, SystemExit)
FuncOutcomes == {"ok", "exception", "base_exception"}

\* variant: the breaker lets a call through once recovery_timeout has passed
RecoveryElapsedAtTimeout(now, last_failure_time, recovery_timeout) ==
    now - last_failure_time >= recovery_timeout

\* `time.time() - self.last_failure_time > self.recovery_timeout`
RecoveryElapsed(now, last_failure_time, recovery_timeout) ==
    now - last_failure_time > recovery_timeout

\* self.state after the `if self.state == "OPEN"` block, when the call was
\* not refused
Entered(state, elapsed) ==
    IF state = "OPEN" /\ elapsed THEN "HALF_OPEN" ELSE state

\* self.failures after a return of func: reset on a HALF_OPEN call only
FailuresAfterSuccess(state, failures) ==
    IF state = "HALF_OPEN" THEN 0 ELSE failures

\* self.state after a return of func
StateAfterSuccess(state) ==
    IF state = "HALF_OPEN" THEN "CLOSED" ELSE state

\* self.state after an Exception of func, `failures` already incremented
StateAfterFailure(state, failures, failure_threshold) ==
    IF failures >= failure_threshold THEN "OPEN" ELSE state

\* one entry of the call history
CallRecord(pre, at, invoked, outcome, post, failures) ==
    [pre |-> pre, at |-> at, invoked |-> invoked, outcome |-> outcome,
     post |-> post, failures |-> failures]

BreakerInit ==
    /\ cb_failure_threshold \in 1..MaxThreshold
    /\ cb_recovery_timeout \in 0..MaxTimeout
    /\ cb_failures = 0
    /\ cb_last_failure_time = 0
    /\ cb_state = "CLOSED"
    /\ cb_now = 0
    /\ cb_history = <<>>
    /\ NoOMS
    /\ NoPipeline
    /\ NoPortfolio
    /\ NoBot
    /\ NoRetry

\* time passes between two calls
ClockTick ==
    /\ cb_now < MaxTime
    /\ cb_now' = cb_now + 1
    /\ UNCHANGED <<cb_failure_threshold, cb_recovery_timeout, cb_failures,
                   cb_last_failure_time, cb_state, cb_history>>
    /\ UNCHANGED <<oms_vars, pipe_vars, port_vars, bot_vars, rt_vars>>

\* CircuitBreaker.call(func) refused: the breaker is OPEN and the recovery
\* timeout has not passed
CallBlocked ==
    /\ Len(cb_history) < MaxCalls
    /\ cb_state = "OPEN"
    /\ ~RecoveryElapsed(cb_now, cb_last_failure_time, cb_recovery_timeout)
    /\ cb_history' = Append(cb_history,
                            CallRecord(cb_state, cb_now, FALSE,
                                       "CircuitBreakerOpenException",
                                       cb_state, cb_failures))
    /\ UNCHANGED <<cb_failure_threshold, cb_recovery_timeout, cb_failures,
                   cb_last_failure_time, cb_state, cb_now>>
    /\ UNCHANGED <<oms_vars, pipe_vars, port_vars, bot_vars, rt_vars>>

\* CircuitBreaker.call(func) let through: func is invoked
CallThrough ==
    /\ Len(cb_history) < MaxCalls
    /\ cb_state = "OPEN" =>
          RecoveryElapsed(cb_now, cb_last_failure_time, cb_recovery_timeout)
    /\ \E outcome \in FuncOutcomes :
         LET state == Entered(cb_state, TRUE)
         IN /\ CASE outcome = "ok" ->
                      /\ cb_state' = StateAfterSuccess(state)
                      /\ cb_failures' = FailuresAfterSuccess(state, cb_failures)
                      /\ cb_last_failure_time' = cb_last_failure_time
                 [] outcome = "exception" ->
                      /\ cb_failures' = cb_failures + 1
                      /\ cb_last_failure_time' = cb_now
                      /\ cb_state' = StateAfterFailure(state, cb_failures',
                                                       cb_failure_threshold)
                 [] outcome = "base_exception" ->
                      /\ cb_state' = state
                      /\ UNCHANGED <<cb_failures, cb_last_failure_time>>
            /\ cb_history' = Append(cb_history,
                                    CallRecord(cb_state, cb_now, TRUE, outcome,
                                               cb_state', cb_failures'))
    /\ UNCHANGED <<cb_failure_threshold, cb_recovery_timeout, cb_now>>
    /\ UNCHANGED <<oms_vars, pipe_vars, port_vars, bot_vars, rt_vars>>

BreakerNext ==
    \/ ClockTick
    \/ CallBlocked
    \/ CallThrough

BreakerSpec == BreakerInit /\ [][BreakerNext]_vars

Calls == 1..Len(cb_history)

\* the call raised an Exception of the wrapped function
Failed(i) == cb_history[i].invoked /\ cb_history[i].outcome = "exception"

\* the failure_threshold most recent calls up to call i all failed
FailedInARow(i) ==
    /\ i >= cb_failure_threshold
    /\ \A j \in (i - cb_failure_threshold + 1)..i : Failed(j)

\* C24: the breaker goes from CLOSED to OPEN exactly when failure_threshold
\* calls have failed in a row: a failure opens it only if the
\* failure_threshold most recent calls all failed, so failures separated by
\* a successful call do not add up.
C24_OpensOnConsecutiveFailures ==
    \A i \in Calls :
        cb_history[i].pre = "CLOSED" =>
            (cb_history[i].post = "OPEN" <=> FailedInARow(i))

\* the time of the last failure before call i, as call() recorded it
LastFailureBefore(i) ==
    LET failed == {j \in 1..(i - 1) : Failed(j)}
    IN IF failed = {} THEN 0
       ELSE cb_history[CHOOSE j \in failed : \A k \in failed : k <= j].at

SinceLastFailure(i) == cb_history[i].at - LastFailureBefore(i)

\* C25: while the breaker is OPEN and at most recovery_timeout has passed
\* since the last failure, call() raises CircuitBreakerOpenException without
\* invoking the wrapped function; the first call after recovery_timeout is
\* let through as HALF_OPEN, and the breaker is then CLOSED with the failure
\* count reset to 0 if that call succeeds, and OPEN again if it fails.
C25_OpenBlocksThenProbes ==
    \A i \in Calls :
        cb_history[i].pre = "OPEN" =>
            IF SinceLastFailure(i) <= cb_recovery_timeout
            THEN /\ ~cb_history[i].invoked
                 /\ cb_history[i].outcome = "CircuitBreakerOpenException"
                 /\ cb_history[i].post = "OPEN"
            ELSE /\ cb_history[i].invoked
                 /\ cb_history[i].outcome = "ok" =>
                       /\ cb_history[i].post = "CLOSED"
                       /\ cb_history[i].failures = 0
                 /\ cb_history[i].outcome = "exception" =>
                       cb_history[i].post = "OPEN"

C25_Witness ==
    /\ cb_recovery_timeout > 0
    /\ \E i, j, k \in Calls :
         /\ i < j /\ j < k
         /\ cb_history[i].pre = "OPEN" /\ ~cb_history[i].invoked
         /\ SinceLastFailure(i) = cb_recovery_timeout
         /\ cb_history[j].pre = "OPEN" /\ Failed(j)
         /\ cb_history[k].pre = "OPEN" /\ cb_history[k].outcome = "ok"
         /\ cb_state = "CLOSED"
         /\ cb_failures = 0

----------------------------------------------------------------------------
(* retry decorator (riskfusion/utils/retry.py) *)

(* Bounds *)
MaxTries == 4              \* largest `tries`
MaxDelay == 1              \* largest `delay`, in seconds
MaxBackoff == 2            \* largest `backoff`

\* what one invocation of func does: it returns, raises an exception of one
\* of the types in `exceptions`, or raises one of another type
InvocationOutcomes == {"ok", "listed", "unlisted"}

\* variant: the loop goes on while a try is left
LoopAgainWhileLeft(mtries) == mtries > 0

\* `while mtries > 1`
LoopAgain(mtries) == mtries > 1

\* the wrapper returns the value of an invocation, or that invocation's
\* exception leaves the wrapper
WrapperReturns(invocation) == [kind |-> "return", invocation |-> invocation]

WrapperRaises(invocation) == [kind |-> "raise", invocation |-> invocation]

\* the wrapper is entered: mtries, mdelay = tries, delay
RetryInit ==
    /\ rt_params \in [tries : 0..MaxTries, delay : 0..MaxDelay,
                      backoff : 1..MaxBackoff]
    /\ rt_pc = "loop"
    /\ rt_mtries = rt_params.tries
    /\ rt_mdelay = rt_params.delay
    /\ rt_invocations = <<>>
    /\ rt_slept = 0
    /\ rt_ret = [kind |-> "none"]
    /\ NoOMS
    /\ NoPipeline
    /\ NoPortfolio
    /\ NoBot
    /\ NoBreaker

\* one pass of the while loop: func is invoked inside the try block
Attempt ==
    /\ rt_pc = "loop"
    /\ LoopAgain(rt_mtries)
    /\ \E outcome \in InvocationOutcomes :
         /\ rt_invocations' = Append(rt_invocations, outcome)
         /\ CASE outcome = "ok" ->
                   /\ rt_pc' = "returned"
                   /\ rt_ret' = WrapperReturns(Len(rt_invocations'))
                   /\ UNCHANGED <<rt_mtries, rt_mdelay, rt_slept>>
              [] outcome = "listed" ->
                   /\ rt_slept' = rt_slept + 1
                   /\ rt_mtries' = rt_mtries - 1
                   /\ rt_mdelay' = rt_mdelay * rt_params.backoff
                   /\ UNCHANGED <<rt_pc, rt_ret>>
              [] outcome = "unlisted" ->
                   /\ rt_pc' = "raised"
                   /\ rt_ret' = WrapperRaises(Len(rt_invocations'))
                   /\ UNCHANGED <<rt_mtries, rt_mdelay, rt_slept>>
    /\ UNCHANGED rt_params
    /\ UNCHANGED <<oms_vars, pipe_vars, port_vars, bot_vars, cb_vars>>

\* the invocation after the loop, outside any try block
LastAttempt ==
    /\ rt_pc = "loop"
    /\ ~LoopAgain(rt_mtries)
    /\ \E outcome \in InvocationOutcomes :
         /\ rt_invocations' = Append(rt_invocations, outcome)
         /\ IF outcome = "ok"
            THEN rt_pc' = "returned" /\ rt_ret' = WrapperReturns(Len(rt_invocations'))
            ELSE rt_pc' = "raised" /\ rt_ret' = WrapperRaises(Len(rt_invocations'))
    /\ UNCHANGED <<rt_params, rt_mtries, rt_mdelay, rt_slept>>
    /\ UNCHANGED <<oms_vars, pipe_vars, port_vars, bot_vars, cb_vars>>

RetryNext ==
    \/ Attempt
    \/ LastAttempt

RetrySpec == RetryInit /\ [][RetryNext]_vars

Invocations == Len(rt_invocations)

\* C26: a function wrapped by retry(tries=n), n >= 1, is invoked at most n
\* times per call: the wrapper returns the value of the first invocation
\* that succeeds and stops there, raises the last exception when all n
\* invocations fail, and lets an exception of a type not in `exceptions`
\* leave at once without a further attempt.
C26_AtMostNInvocations ==
    rt_params.tries >= 1 =>
        /\ Invocations <= rt_params.tries
        /\ \A i \in 1..(Invocations - 1) : rt_invocations[i] = "listed"
        /\ rt_pc = "loop" =>
              /\ Invocations < rt_params.tries
              /\ \A i \in 1..Invocations : rt_invocations[i] = "listed"
        /\ rt_pc = "returned" =>
              /\ rt_invocations[Invocations] = "ok"
              /\ rt_ret = WrapperReturns(Invocations)
        /\ rt_pc = "raised" =>
              /\ rt_ret = WrapperRaises(Invocations)
              /\ \/ rt_invocations[Invocations] = "unlisted"
                 \/ /\ rt_invocations[Invocations] = "listed"
                    /\ Invocations = rt_params.tries

C26_Witness ==
    /\ rt_params.tries = 3
    /\ rt_pc = "raised"
    /\ rt_invocations = <<"listed", "listed", "listed">>
    /\ rt_slept = 2
    /\ rt_ret = WrapperRaises(3)

----------------------------------------------------------------------------
(* CovarianceEstimator.estimate (riskfusion/portfolio/covariance.py).
   A returns frame is a sequence of blocks [row, n]: n consecutive dates
   with the same row of returns; a cell is an exact rational or NaN. *)

MIN_ROWS == 20             \* `if len(recent) < 20`

CovColumns == {"AAPL", "MSFT"}

\* number of rows of a frame
RECURSIVE Rows(_)
Rows(df) == IF df = <<>> THEN 0 ELSE df[1].n + Rows(Tail(df))

\* DataFrame.tail(k): the last k rows
RECURSIVE TailRows(_, _)
TailRows(df, k) ==
    IF df = <<>> \/ k <= 0 THEN <<>>
    ELSE LET last == df[Len(df)]
         IN IF last.n >= k THEN <<[row |-> last.row, n |-> k]>>
            ELSE TailRows(SubSeq(df, 1, Len(df) - 1), k - last.n) \o <<last>>

\* dropna(axis=1, how='any'): the columns without any NaN
CompleteColumns(df) ==
    {c \in CovColumns : \A i \in 1..Len(df) : IsNum(df[i].row[c])}

\* sum over the rows where both columns are present of x^p * y^q
RECURSIVE Moment(_, _, _, _, _)
Moment(df, x, y, p, q) ==
    IF df = <<>> THEN 0
    ELSE LET r == df[1].row
             term == IF IsNum(r[x]) /\ IsNum(r[y])
                     THEN df[1].n * (IF p = 0 THEN 1 ELSE IF p = 1 THEN r[x].n ELSE r[x].n * r[x].n)
                                  * (IF q = 0 THEN 1 ELSE r[y].n)
                     ELSE 0
         IN term + Moment(Tail(df), x, y, p, q)

\* covariance of two columns over the rows where both are present, with
\* `ddof` delta degrees of freedom; NaN when too few rows are left
Cov(df, x, y, ddof) ==
    LET n == Moment(df, x, y, 0, 0)
    IN IF n - ddof <= 0 THEN RNaN
       ELSE Rat(n * Moment(df, x, y, 1, 1)
                  - Moment(df, x, y, 1, 0) * Moment(df, y, x, 1, 0),
                n * (n - ddof))

\* DataFrame.var(): per column, NaN cells skipped, ddof = 1
Var(df, x) == Cov(df, x, x, 1)

\* np.diag(var.values)
Diag(df, cols) ==
    [columns |-> cols,
     m |-> [c \in cols \X cols |-> IF c[1] = c[2] THEN Var(df, c[1]) ELSE Zero]]

\* _sample_cov: DataFrame.cov().values
SampleCov(df, cols) ==
    [columns |-> cols,
     m |-> [c \in cols \X cols |-> Cov(df, c[1], c[2], 1)]]

\* sum of a rational-valued function over a set of columns
RECURSIVE Trace(_, _, _)
Trace(df, cols, ddof) ==
    IF cols = {} THEN Zero
    ELSE LET c == CHOOSE c \in cols : TRUE
         IN RAdd(Cov(df, c, c, ddof), Trace(df, cols \ {c}, ddof))

\* LedoitWolf().fit(X).covariance_: (1 - shrinkage) * S + shrinkage * mu * I
\* with S the maximum-likelihood covariance and mu = trace(S) / n_features
Shrunk(df, cols, shrinkage) ==
    LET mu == RDiv(Trace(df, cols, 0), Rat(Cardinality(cols), 1))
    IN [columns |-> cols,
        m |-> [c \in cols \X cols |->
                 RAdd(RMul(RSub(One, shrinkage), Cov(df, c[1], c[2], 0)),
                      IF c[1] = c[2] THEN RMul(shrinkage, mu) ELSE Zero)]]

\* what sklearn does in _ledoit_wolf: the import or the fit raises (the fit
\* always does without any column), or the fit returns with a shrinkage
\* coefficient in [0, 1]
ShrinkageVals == {Zero, Rat(1, 2), One}

LedoitWolfOutcomes(cols) ==
    {[raises |-> TRUE, shrinkage |-> Zero]}
        \cup (IF cols = {} THEN {}
              ELSE {[raises |-> FALSE, shrinkage |-> s] : s \in ShrinkageVals})

\* _ledoit_wolf: both except clauses fall back to the sample covariance
LedoitWolf(df, cols, lw) ==
    IF lw.raises THEN SampleCov(df, cols) ELSE Shrunk(df, cols, lw.shrinkage)

\* CovarianceEstimator.estimate
Estimate(returns, method, lookback, lw) ==
    LET recent_rows == TailRows(returns, lookback)
        cols == CompleteColumns(recent_rows)
    IN IF Rows(recent_rows) < MIN_ROWS
       THEN Diag(returns, CovColumns)
       ELSE CASE method = "sample" -> SampleCov(recent_rows, cols)
              [] method = "ledoit_wolf" -> LedoitWolf(recent_rows, cols, lw)
              [] method = "diagonal" -> Diag(recent_rows, cols)
              [] OTHER -> LedoitWolf(recent_rows, cols, lw)

(* Inputs *)

ReturnVals == {Rat(-1, 1), Rat(1, 1), RNaN}

RowCounts == {1, 10, 20}

Blocks == {[row |-> r, n |-> n] : r \in [CovColumns -> ReturnVals], n \in RowCounts}

ReturnFrames == {<<b>> : b \in Blocks} \cup {<<a, b>> : a, b \in Blocks}

Methods == {"sample", "ledoit_wolf", "diagonal", "unknown"}

LookbackVals == {10, 60}

EstimateCalls ==
    {[fn |-> "estimate", returns |-> r, method |-> m, lookback |-> l] :
        r \in ReturnFrames, m \in Methods, l \in LookbackVals}

\* a call of estimate returns
EstimateCall ==
    /\ pf_call.fn = "estimate"
    /\ pf_ret = Pending
    /\ \E lw \in LedoitWolfOutcomes(CompleteColumns(TailRows(pf_call.returns,
                                                              pf_call.lookback))) :
         pf_ret' = [kind |-> "returned",
                    value |-> Estimate(pf_call.returns, pf_call.method,
                                       pf_call.lookback, lw)]
    /\ UNCHANGED <<pf_call, oms_vars, pipe_vars, svc_vars>>

CovarianceInit ==
    /\ pf_call \in EstimateCalls
    /\ pf_ret = Pending
    /\ NoOMS
    /\ NoPipeline
    /\ NoServices

CovarianceNext == EstimateCall

CovarianceSpec == CovarianceInit /\ [][CovarianceNext]_vars

\* a matrix of at most two columns is symmetric and positive semi-definite:
\* finite entries, equal off-diagonal entries, no negative diagonal entry
\* and no negative determinant
IsSymmetricPSD(cov) ==
    /\ \A c \in DOMAIN cov.m : IsNum(cov.m[c])
    /\ \A x, y \in cov.columns : cov.m[<<x, y>>] = cov.m[<<y, x>>]
    /\ \A x \in cov.columns : RLeq(Zero, cov.m[<<x, x>>])
    /\ \A x, y \in cov.columns :
          x # y => RLeq(RMul(cov.m[<<x, y>>], cov.m[<<y, x>>]),
                        RMul(cov.m[<<x, x>>], cov.m[<<y, y>>]))

\* C23: every matrix returned by CovarianceEstimator.estimate is symmetric
\* and positive semi-definite, on the sample, diagonal and ledoit_wolf paths
\* and on the diagonal path taken with fewer than 20 rows.
C23_EstimateIsPSD ==
    ReturnedBy("estimate") => IsSymmetricPSD(pf_ret.value)

====
